---- MODULE Spec2Model ----
(***************************************************************************)
(* Model of the nyc-financials seeding scripts: the housing reconciliation *)
(* pipeline (classifier, deduplicator), the change detector with its       *)
(* FNV-1a fingerprint, and the validate / detect / clear / insert run of   *)
(* the three seed scripts (housing, capital budget, financial).            *)
(*                                                                         *)
(* JavaScript values are encoded as follows.  A string that the code       *)
(* inspects character by character is a sequence of one-character strings. *)
(* null, undefined and the empty string, which the code only ever tests    *)
(* for truthiness, are the empty sequence NULL.  NaN is a number outside   *)
(* the modelled range; every comparison goes through JsGt/JsGe/JsLe, which *)
(* are false on NaN as in JavaScript.                                      *)
(***************************************************************************)
EXTENDS Integers, Sequences, FiniteSets, TLC

VARIABLES
    \* classifier: its arguments, its result
    clsPc, clsIn, clsOut,
    \* deduplicator: its argument, its result
    dedupPc, buildings, uniqueBuildings,
    \* change detector: the persisted table, the new records, the shape of
    \* the driver's query results, the step that raises, the verdict
    cdPc, cdTable, cdNew, cdDriver, cdFail, cdResult,
    \* seed run: the script, its position, the collection and the batch
    \* offset it is at, the persisted collections now and at the start of
    \* the run, the processed records per collection, the change verdicts,
    \* the writes done so far, what made the run fail, the driver's result
    \* shape
    script, pc, idx, batchAt, db, dbAtStart, newRecs, verdicts, ops,
    failure, runDriver,
    \* housing pipeline: its position, the fetched DCP, Housing NY and
    \* demolition records, the processed buildings (overlaid in place), the
    \* overlay map, the buildings as they were after the first overlay, the
    \* deduplicated buildings, the demolitions and the standalone ones
    hpPc, dcpRecords, housingNyRecords, demolitionRecords, dcpBuildings,
    housingNyMap, buildingsWithOverlay, remerged, dedupedBuildings,
    demolitions, standaloneDemolitions,
    \* geometry simplifier: its position, the ring, the tolerance, the
    \* simplified ring, the geometry and its simplified form
    sgPc, points, tolerance, simplified, geometry, geometrySimplified,
    centroid,
    \* one chain of nested simplifyLine calls: the argument of the innermost
    \* call, the argument of its caller, the number of calls above it
    call, caller, depth,
    \* identifier normaliser: its position, the raw value, the result and
    \* the result of normalising the result
    nbPc, rawBbl, normalized, renormalized

clsVars == <<clsPc, clsIn, clsOut>>
dedupVars == <<dedupPc, buildings, uniqueBuildings>>
cdVars == <<cdPc, cdTable, cdNew, cdDriver, cdFail, cdResult>>
runVars == <<script, pc, idx, batchAt, db, dbAtStart, newRecs, verdicts, ops,
             failure, runDriver>>
hpVars == <<hpPc, dcpRecords, housingNyRecords, demolitionRecords, dcpBuildings,
            housingNyMap, buildingsWithOverlay, remerged, dedupedBuildings,
            demolitions, standaloneDemolitions>>
sgVars == <<sgPc, points, tolerance, simplified, geometry, geometrySimplified,
            centroid, call, caller, depth>>
nbVars == <<nbPc, rawBbl, normalized, renormalized>>
vars == <<clsVars, dedupVars, cdVars, runVars, hpVars, sgVars, nbVars>>

NULL == <<>>
NaN == -9999

Truthy(s) == s # NULL

JsGt(a, b) == a # NaN /\ b # NaN /\ a > b
JsLt(a, b) == a # NaN /\ b # NaN /\ a < b
JsGe(a, b) == a # NaN /\ b # NaN /\ a >= b
JsLe(a, b) == a # NaN /\ b # NaN /\ a <= b

\* UTF-16 code unit of the characters the model's strings are made of
CharCode(c) ==
    CASE c = "0" -> 48 [] c = "1" -> 49 [] c = "2" -> 50 [] c = "3" -> 51
      [] c = "4" -> 52 [] c = "5" -> 53 [] c = "6" -> 54 [] c = "7" -> 55
      [] c = "8" -> 56 [] c = "9" -> 57
      [] c = "\"" -> 34 [] c = "," -> 44 [] c = "-" -> 45 [] c = ":" -> 58
      [] c = "[" -> 91 [] c = "\\" -> 92 [] c = "]" -> 93
      [] c = "{" -> 123 [] c = "}" -> 125
      [] c = "a" -> 97 [] c = "c" -> 99 [] c = "d" -> 100 [] c = "e" -> 101
      [] c = "f" -> 102 [] c = "i" -> 105 [] c = "l" -> 108 [] c = "m" -> 109
      [] c = "n" -> 110 [] c = "o" -> 111 [] c = "p" -> 112 [] c = "r" -> 114
      [] c = "s" -> 115 [] c = "t" -> 116 [] c = "u" -> 117 [] c = "v" -> 118
      [] c = "C" -> 67 [] c = "D" -> 68 [] c = "M" -> 77 [] c = "P" -> 80

Digit(d) == <<"0", "1", "2", "3", "4", "5", "6", "7", "8", "9">>[d + 1]

\* String(n) for an integer n >= 0
RECURSIVE DecimalString(_)
DecimalString(n) ==
    IF n < 10 THEN <<Digit(n)>>
    ELSE Append(DecimalString(n \div 10), Digit(n % 10))

\* a > b on two strings: code unit by code unit, a proper prefix is smaller
RECURSIVE StrGreater(_, _)
StrGreater(a, b) ==
    IF a = <<>> THEN FALSE
    ELSE IF b = <<>> THEN TRUE
    ELSE IF CharCode(Head(a)) # CharCode(Head(b))
         THEN CharCode(Head(a)) > CharCode(Head(b))
         ELSE StrGreater(Tail(a), Tail(b))

(***************************************************************************)
(* Classifier                                                              *)
(***************************************************************************)

\* String.prototype.toUpperCase on the one character the code looks at
ToUpperCase(c) ==
    CASE c = "d" -> "D"
      [] c = "o" -> "O"
      [] c = "a" -> "A"
      [] c = "r" -> "R"
      [] OTHER -> c

\* mutant: the ">= 3" rule is lost, so 3..9 units are no longer walk-ups
getPhysicalBuildingTypeNoSmallWalkup(totalUnits, buildingClass) ==
    IF Truthy(buildingClass)
          /\ ToUpperCase(buildingClass[1]) \in {"D", "O"}
    THEN "mixed-use"
    ELSE IF JsGe(totalUnits, 50) THEN "multifamily-elevator"
    ELSE IF JsGe(totalUnits, 10) THEN "multifamily-walkup"
    ELSE IF JsLe(totalUnits, 2) THEN "one-two-family"
    ELSE "unknown"

\* mutant: a unit count of zero is treated as "no data"
getPhysicalBuildingTypeZeroUnknown(totalUnits, buildingClass) ==
    IF Truthy(buildingClass)
          /\ ToUpperCase(buildingClass[1]) \in {"D", "O"}
    THEN "mixed-use"
    ELSE IF JsGe(totalUnits, 50) THEN "multifamily-elevator"
    ELSE IF JsGe(totalUnits, 10) THEN "multifamily-walkup"
    ELSE IF JsGe(totalUnits, 3) THEN "multifamily-walkup"
    ELSE IF JsGe(totalUnits, 1) /\ JsLe(totalUnits, 2) THEN "one-two-family"
    ELSE "unknown"

getPhysicalBuildingType(totalUnits, buildingClass) ==
    IF Truthy(buildingClass)
          /\ ToUpperCase(buildingClass[1]) \in {"D", "O"}
    THEN "mixed-use"
    ELSE IF JsGe(totalUnits, 50) THEN "multifamily-elevator"
    ELSE IF JsGe(totalUnits, 10) THEN "multifamily-walkup"
    ELSE IF JsGe(totalUnits, 3) THEN "multifamily-walkup"
    ELSE IF JsLe(totalUnits, 2) THEN "one-two-family"
    ELSE "unknown"

classifyBuildingType(totalUnits, affordableUnits, jobType, hasAffordableOverlay, buildingClass) ==
    IF hasAffordableOverlay /\ JsGt(affordableUnits, 0) THEN "affordable"
    ELSE IF jobType = "Alteration" THEN "renovation"
    ELSE getPhysicalBuildingType(totalUnits, buildingClass)

UnitCounts == {NaN, -3, 0, 1, 2, 3, 9, 10, 49, 50, 120}
AffordableCounts == {NaN, 0, 5}
JobTypes == {"New Building", "Alteration", "Unknown"}
BuildingClasses ==
    {NULL, <<"D", "6">>, <<"d", "1">>, <<"O", "4">>, <<"o", "2">>,
     <<"A", "1">>, <<"R", "D">>}

ClassifierInputs ==
    [totalUnits : UnitCounts, affordableUnits : AffordableCounts,
     jobType : JobTypes, hasAffordableOverlay : BOOLEAN,
     buildingClass : BuildingClasses]

NoClassifierInput ==
    [totalUnits |-> 0, affordableUnits |-> 0, jobType |-> "Unknown",
     hasAffordableOverlay |-> FALSE, buildingClass |-> NULL]

ClassifyIdle == clsPc = "idle" /\ clsIn = NoClassifierInput /\ clsOut = ""

ClassifyInit == /\ clsPc = "input"
                /\ clsIn \in ClassifierInputs
                /\ clsOut = ""

Classify ==
    /\ clsPc = "input"
    /\ clsOut' = classifyBuildingType(clsIn.totalUnits, clsIn.affordableUnits,
                     clsIn.jobType, clsIn.hasAffordableOverlay,
                     clsIn.buildingClass)
    /\ clsPc' = "done"
    /\ UNCHANGED <<clsIn, dedupVars, cdVars, runVars, hpVars, sgVars, nbVars>>

(***************************************************************************)
(* Deduplicator                                                            *)
(***************************************************************************)

\* the grouping key `${building.bbl}-${building.completionYear}`
DedupKey(building) ==
    building.bbl \o <<"-">> \o DecimalString(building.completionYear)

\* keys of duplicateGroups in insertion order (a Map iterates in that order)
RECURSIVE GroupKeys(_, _)
GroupKeys(bs, seen) ==
    IF bs = <<>> THEN <<>>
    ELSE LET b == Head(bs) IN
         IF ~Truthy(b.bbl) \/ DedupKey(b) \in seen
         THEN GroupKeys(Tail(bs), seen)
         ELSE <<DedupKey(b)>> \o GroupKeys(Tail(bs), seen \cup {DedupKey(b)})

GroupOf(bs, key) ==
    SelectSeq(bs, LAMBDA b : Truthy(b.bbl) /\ DedupKey(b) = key)

\* mutant: the overlay tie-break is skipped
PreferNoOverlayRule(best, current) ==
    IF current.totalUnits > best.totalUnits THEN current
    ELSE IF current.totalUnits < best.totalUnits THEN best
    ELSE IF StrGreater(current.jobNumber, best.jobNumber) THEN current
    ELSE best

\* the callback of group.reduce
Prefer(best, current) ==
    IF current.totalUnits > best.totalUnits THEN current
    ELSE IF current.totalUnits < best.totalUnits THEN best
    ELSE IF current.hasAffordableOverlay /\ ~best.hasAffordableOverlay THEN current
    ELSE IF ~current.hasAffordableOverlay /\ best.hasAffordableOverlay THEN best
    ELSE IF StrGreater(current.jobNumber, best.jobNumber) THEN current
    ELSE best

\* group.reduce(callback) without an initial value: starts from group[0]
RECURSIVE ReduceBest(_, _)
ReduceBest(best, rest) ==
    IF rest = <<>> THEN best
    ELSE ReduceBest(Prefer(best, Head(rest)), Tail(rest))

\* mutant: a group of more than one record is dropped whole
deduplicateBuildingsSinglesOnly(bs) ==
    LET noBbl == SelectSeq(bs, LAMBDA b : ~Truthy(b.bbl))
        keys == GroupKeys(bs, {})
        single == SelectSeq(keys, LAMBDA k : Len(GroupOf(bs, k)) = 1)
    IN  noBbl \o [i \in 1..Len(single) |-> Head(GroupOf(bs, single[i]))]

\* mutant: records without identifier are left out
deduplicateBuildingsIdentifiedOnly(bs) ==
    LET keys == GroupKeys(bs, {})
        group(i) == GroupOf(bs, keys[i])
    IN  [i \in 1..Len(keys) |-> ReduceBest(Head(group(i)), Tail(group(i)))]

deduplicateBuildings(bs) ==
    LET noBbl == SelectSeq(bs, LAMBDA b : ~Truthy(b.bbl))
        keys == GroupKeys(bs, {})
        group(i) == GroupOf(bs, keys[i])
    IN  noBbl \o [i \in 1..Len(keys) |->
                    ReduceBest(Head(group(i)), Tail(group(i)))]

MaxBuildings == 3

BBL1 == <<"1", "0", "0", "0", "1", "2", "3", "4", "5", "6">>
BBL2 == <<"2", "0", "0", "0", "0", "0", "0", "0", "0", "1">>
Job1 == <<"1", "0">>
Job2 == <<"9">>

Building(job, bbl, year, units, overlay, address) ==
    [jobNumber |-> job, bbl |-> bbl, completionYear |-> year,
     totalUnits |-> units, hasAffordableOverlay |-> overlay,
     address |-> address]

BuildingInputs ==
    {Building(j, BBL1, 2020, u, o, "a") :
        j \in {Job1, Job2}, u \in {40, 45}, o \in BOOLEAN}
    \cup {Building(Job1, BBL1, 2020, 40, FALSE, "b"),
          Building(Job1, BBL1, 2021, 40, FALSE, "a"),
          Building(Job2, BBL2, 2020, 40, FALSE, "a"),
          Building(Job1, NULL, 2020, 40, FALSE, "a"),
          Building(Job2, NULL, 2020, 45, FALSE, "a")}

BuildingLists ==
    UNION {[1..n -> BuildingInputs] : n \in 0..MaxBuildings}

DedupIdle == dedupPc = "idle" /\ buildings = <<>> /\ uniqueBuildings = <<>>

DedupInit == /\ dedupPc = "input"
             /\ buildings \in BuildingLists
             /\ uniqueBuildings = <<>>

Deduplicate ==
    /\ dedupPc = "input"
    /\ uniqueBuildings' = deduplicateBuildings(buildings)
    /\ dedupPc' = "done"
    /\ UNCHANGED <<buildings, clsVars, cdVars, runVars, hpVars, sgVars, nbVars>>

(***************************************************************************)
(* Change detector                                                         *)
(***************************************************************************)

\* a stored record: the text primary key and the rest of its content
Row(id, v) == [id |-> id, v |-> v]

\* JSON.stringify of a record: {"id":"<id>","v":<v>}
StringifyRecord(r) ==
    <<"{", "\"", "i", "d", "\"", ":", "\"">> \o r.id
    \o <<"\"", ",", "\"", "v", "\"", ":">> \o DecimalString(r.v) \o <<"}">>

\* JSON.stringify of a string: quoted, with " and \ escaped
RECURSIVE EscapeFrom(_, _)
EscapeFrom(str, i) ==
    IF i > Len(str) THEN <<>>
    ELSE (IF str[i] \in {"\"", "\\"} THEN <<"\\", str[i]>> ELSE <<str[i]>>)
         \o EscapeFrom(str, i + 1)

StringifyString(str) == <<"\"">> \o EscapeFrom(str, 1) \o <<"\"">>

RECURSIVE JoinFrom(_, _)
JoinFrom(strs, i) ==
    IF i > Len(strs) THEN <<>>
    ELSE (IF i > 1 THEN <<",">> ELSE <<>>) \o StringifyString(strs[i])
         \o JoinFrom(strs, i + 1)

SampleDivisor == 5
SampleLimit == 5

\* records.filter((_, idx) => idx % Math.floor(records.length / 5) === 0)
\*        .slice(0, 5); idx % 0 is NaN, so fewer than 5 records give none
SampleRecords(records) ==
    LET step == Len(records) \div SampleDivisor
        hits == IF step = 0 THEN <<>>
                ELSE SelectSeq([i \in 1..Len(records) |-> i],
                               LAMBDA i : (i - 1) % step = 0)
    IN  [k \in 1..(IF Len(hits) < SampleLimit THEN Len(hits) ELSE SampleLimit)
            |-> records[hits[k]]]

\* mutant: the summary holds the count and the first record only
SummaryOfFirst(records) ==
    [count |-> Len(records),
     first |-> StringifyRecord(records[1]),
     last |-> StringifyRecord(records[1]),
     samples |-> <<>>]

\* the summary object of calculateDataHash
Summary(records) ==
    [count |-> Len(records),
     first |-> StringifyRecord(records[1]),
     last |-> StringifyRecord(records[Len(records)]),
     samples |-> LET sm == SampleRecords(records)
                 IN  [i \in 1..Len(sm) |-> StringifyRecord(sm[i])]]

\* JSON.stringify(summary)
StringifySummary(sm) ==
    <<"{", "\"", "c", "o", "u", "n", "t", "\"", ":">> \o DecimalString(sm.count)
    \o <<",", "\"", "f", "i", "r", "s", "t", "\"", ":">> \o StringifyString(sm.first)
    \o <<",", "\"", "l", "a", "s", "t", "\"", ":">> \o StringifyString(sm.last)
    \o <<",", "\"", "s", "a", "m", "p", "l", "e", "s", "\"", ":", "[">>
    \o JoinFrom(sm.samples, 1) \o <<"]", "}">>

\* a ^ b on non-negative integers
RECURSIVE BitXor(_, _)
BitXor(a, b) ==
    IF a = 0 THEN b
    ELSE IF b = 0 THEN a
    ELSE ((a + b) % 2) + 2 * BitXor(a \div 2, b \div 2)

\* 2166136261 = 0x811C9DC5, kept as two 16-bit halves
FnvOffsetHi == 33052
FnvOffsetLo == 40389
\* 1 + (1 << 1) + (1 << 4) + (1 << 7) + (1 << 8); the (1 << 24) term is FnvStep
FnvPrimeLow == 403
Half == 65536

\* hash ^= code; hash += (hash << 1) + (hash << 4) + (hash << 7) + (hash << 8)
\* + (hash << 24), modulo 2^32, on the halves <<hi, lo>>
FnvStep(h, code) ==
    LET lo == BitXor(h[2], code)
        hi == h[1]
        low == lo * FnvPrimeLow
    IN  <<(hi * FnvPrimeLow + (low \div Half) + (lo % 256) * 256) % Half,
          low % Half>>

\* the for loop over str[lo..hi]; the range is split in halves and the left
\* half's result is computed before the right half starts
RECURSIVE FnvRange(_, _, _, _)
FnvRange(str, lo, hi, h) ==
    IF lo > hi THEN h
    ELSE IF lo = hi THEN FnvStep(h, CharCode(str[lo]))
    ELSE LET mid == (lo + hi) \div 2
             left == FnvRange(str, lo, mid, h)
         IN  IF left[1] >= 0 THEN FnvRange(str, mid + 1, hi, left) ELSE left

HexDigit(d) ==
    <<"0", "1", "2", "3", "4", "5", "6", "7",
      "8", "9", "a", "b", "c", "d", "e", "f">>[d + 1]

\* n.toString(16) for 0 <= n < 65536, left-padded with zeros to width digits
RECURSIVE HexString(_, _)
HexString(n, width) ==
    IF n < 16 /\ width <= 1 THEN <<HexDigit(n)>>
    ELSE Append(HexString(n \div 16, width - 1), HexDigit(n % 16))

\* (hash >>> 0).toString(16)
ToHex(h) ==
    IF h[1] = 0 THEN HexString(h[2], 1)
    ELSE HexString(h[1], 1) \o HexString(h[2], 4)

calculateDataHash(records) ==
    IF Len(records) = 0 THEN <<"e", "m", "p", "t", "y">>
    ELSE LET str == StringifySummary(Summary(records))
         IN  ToHex(FnvRange(str, 1, Len(str), <<FnvOffsetHi, FnvOffsetLo>>))

RowLimit == 1000
NewSampleLimit == 1000

\* the rows of a table in ascending order of the text key
RECURSIVE OrderById(_)
OrderById(rows) ==
    IF rows = {} THEN <<>>
    ELSE LET least == CHOOSE r \in rows :
                          \A q \in rows : ~StrGreater(r.id, q.id)
         IN  <<least>> \o OrderById(rows \ {least})

FirstN(seq, n) == IF Len(seq) <= n THEN seq ELSE SubSeq(seq, 1, n)

\* SELECT * FROM <table> ORDER BY id LIMIT 1000
SampleQuery(rows) == FirstN(OrderById(rows), RowLimit)

Verdict(changed, reason, hashCalls) ==
    [threw |-> FALSE, hasChanges |-> changed, reason |-> reason,
     hashCalls |-> hashCalls]

\* an exception leaving the try block before a verdict is returned
Raise(hashCalls) ==
    [threw |-> TRUE, hasChanges |-> FALSE, reason |-> "", hashCalls |-> hashCalls]

\* The try block of detectDataChanges(db, tableName, newRecords) on the
\* table's rows.  driver is the shape of db.execute's result: "rows" (an
\* object with a rows array) or "array" (the bare row list, on which
\* result.rows is undefined, so that result.rows[0] raises); fail is the step
\* at which the storage or the serialisation raises.
DetectTry(rows, newRecords, driver, fail) ==
    IF fail = "count" THEN Raise(0)
    ELSE IF driver = "array" THEN Raise(0)
    ELSE LET currentCount == Cardinality(rows)
             newCount == Len(newRecords)
         IN
         IF currentCount # newCount
         THEN Verdict(TRUE, IF currentCount = 0 THEN "table empty"
                            ELSE "count changed", 0)
         ELSE IF fail = "sample" THEN Raise(0)
         ELSE IF fail = "hash" /\ currentCount > 0 THEN Raise(1)
         ELSE IF calculateDataHash(SampleQuery(rows))
                    # calculateDataHash(FirstN(newRecords, NewSampleLimit))
         THEN Verdict(TRUE, "hash mismatch", 2)
         ELSE Verdict(FALSE, "identical", 2)

\* mutant: a failed comparison is taken for "nothing to do"
detectDataChangesFailClosed(rows, newRecords, driver, fail) ==
    LET body == DetectTry(rows, newRecords, driver, fail)
    IN  IF body.threw
        THEN Verdict(FALSE, "detection failed", body.hashCalls)
        ELSE body

\* detectDataChanges: the try block, and the catch block that turns every
\* exception into the verdict "changed"
detectDataChanges(rows, newRecords, driver, fail) ==
    LET body == DetectTry(rows, newRecords, driver, fail)
    IN  IF body.threw
        THEN Verdict(TRUE, "detection failed", body.hashCalls)
        ELSE body

MaxRows == 7

RowId(i) == <<Digit(i)>>

\* the tables of at most k rows, keyed "1", "2", ...
TablesUpTo(k) ==
    UNION {{{Row(RowId(i), f[i]) : i \in 1..m} : f \in [1..m -> {0, 1}]}
           : m \in 0..k}

Tables == TablesUpTo(MaxRows)

FlipAt(seq, p) == [seq EXCEPT ![p] = Row(seq[p].id, 1 - seq[p].v)]
SwapAt(seq, p) == [seq EXCEPT ![p] = seq[p + 1], ![p + 1] = seq[p]]

\* new record sequences for a table: the same records in key order, one
\* field of one record changed, two neighbours swapped, the last record
\* missing, one more record
NewSequences(rows) ==
    LET base == OrderById(rows)
        m == Len(base)
    IN  {base}
        \cup {FlipAt(base, p) : p \in 1..m}
        \cup {SwapAt(base, p) : p \in 1..(m - 1)}
        \cup {SubSeq(base, 1, m - 1) : k \in (IF m > 0 THEN {1} ELSE {})}
        \cup {Append(base, Row(RowId(m + 1), v)) : v \in {0, 1}}

NoVerdict == Verdict(FALSE, "", 0)

DetectIdle ==
    /\ cdPc = "idle" /\ cdTable = {} /\ cdNew = <<>>
    /\ cdDriver = "rows" /\ cdFail = "none" /\ cdResult = NoVerdict

DetectInit ==
    /\ cdPc = "input"
    /\ cdTable \in Tables
    /\ cdNew \in NewSequences(cdTable)
    /\ cdDriver \in {"rows", "array"}
    /\ cdFail \in {"none", "count", "sample", "hash"}
    /\ cdResult = NoVerdict

Detect ==
    /\ cdPc = "input"
    /\ cdResult' = detectDataChanges(cdTable, cdNew, cdDriver, cdFail)
    /\ cdPc' = "done"
    /\ UNCHANGED <<cdTable, cdNew, cdDriver, cdFail, clsVars, dedupVars, runVars,
                   hpVars, sgVars, nbVars>>

(***************************************************************************)
(* A run of a seed script: validate the raw data, process, validate the   *)
(* processed records, detect changes, and when something changed clear    *)
(* every collection and then insert into every collection.                *)
(***************************************************************************)

Scripts == {"housing", "capital", "financial"}

\* the tables a script replaces, in the order it clears and fills them
Collections(s) ==
    CASE s = "housing" -> <<"housing_buildings", "housing_demolitions">>
      [] s = "capital" -> <<"capital_projects">>
      [] s = "financial" -> <<"sankey_datasets", "sunburst_datasets">>

NumCollections == Len(Collections(script))

\* try blocks around the validation of fetched data: DCP and Housing NY;
\* capital projects; budget, revenue and expense data
RawGates(s) ==
    CASE s = "housing" -> 2
      [] s = "capital" -> 1
      [] s = "financial" -> 3

ExpectedDatasets == 2

\* what validateProcessedRecords and the scripts' checks require of the
\* shape of the processed records: validateProcessedRecords raises on an
\* empty array, seed-financial wants exactly two datasets per collection
ProcessedShapeValid(s, recs) ==
    \A i \in 1..Len(recs) :
        /\ Len(recs[i]) > 0
        /\ s = "financial" => Len(recs[i]) = ExpectedDatasets

\* where a run goes when a validation gate fails: logValidationError and
\* process.exit(1)
\* mutant: process.exit(1) is missing and the run goes on
AfterValidationErrorContinue == "detect"
AfterValidationError == "exit1"

\* mutant: the tables are replaced whatever the verdicts say
NeedsUpdateAlways(vs) == TRUE

\* if (!a.hasChanges && !b.hasChanges) return;
NeedsUpdate(vs) == \E i \in 1..Len(vs) : vs[i].hasChanges

BatchSize == 500

Min(a, b) == IF a < b THEN a ELSE b

SeqRange(seq) == {seq[i] : i \in 1..Len(seq)}

\* the primary key: an insert is rejected when a key is already there or
\* is twice in the batch
CanInsert(rows, batch) ==
    /\ \A i, j \in 1..Len(batch) : batch[i].id = batch[j].id => i = j
    /\ \A i \in 1..Len(batch) : \A r \in rows : r.id # batch[i].id

MaxRecords == 2

SecondTable == {Row(RowId(1), 0), Row(RowId(2), 0)}
SecondTables == {{}, SecondTable}
SecondSequences ==
    LET base == OrderById(SecondTable)
    IN  {<<>>, base, SwapAt(base, 1), FlipAt(base, 2), SubSeq(base, 1, 1)}

DbStates(s) ==
    IF Len(Collections(s)) = 1
    THEN {<<t>> : t \in TablesUpTo(MaxRecords)}
    ELSE {<<t, u>> : t \in TablesUpTo(MaxRecords), u \in SecondTables}

ProcessedRecords(s, d) ==
    IF Len(Collections(s)) = 1
    THEN {<<n>> : n \in NewSequences(d[1]) \cup {<<>>}}
    ELSE {<<n, o>> : n \in NewSequences(d[1]) \cup {<<>>}, o \in SecondSequences}

RunIdle ==
    /\ script = "capital" /\ pc = "idle" /\ idx = 1 /\ batchAt = 0
    /\ db = <<>> /\ dbAtStart = <<>> /\ newRecs = <<>> /\ verdicts = <<>>
    /\ ops = <<>> /\ failure = "none" /\ runDriver = "rows"

RunInit ==
    /\ script \in Scripts
    /\ pc = "raw" /\ idx = 1 /\ batchAt = 0
    /\ db \in DbStates(script)
    /\ dbAtStart = db
    /\ newRecs \in ProcessedRecords(script, db)
    /\ verdicts = [i \in 1..Len(db) |-> NoVerdict]
    /\ ops = <<>>
    /\ failure = "none"
    /\ runDriver \in {"rows", "array"}

idleVars == <<clsVars, dedupVars, cdVars, hpVars, sgVars, nbVars>>

\* one try block validating fetched data (validateMinimumRecordCount,
\* validateRequiredFields, validateDataTypes on data the model does not
\* hold: the outcome is an input)
ValidateRaw ==
    /\ pc = "raw"
    /\ \E ok \in BOOLEAN :
        IF ~ok
        THEN /\ pc' = AfterValidationError
             /\ failure' = "validation"
             /\ idx' = 1
        ELSE /\ pc' = IF idx < RawGates(script) THEN "raw" ELSE "processed"
             /\ idx' = IF idx < RawGates(script) THEN idx + 1 ELSE 1
             /\ UNCHANGED failure
    /\ UNCHANGED <<script, batchAt, db, dbAtStart, newRecs, verdicts, ops,
                   runDriver, idleVars>>

\* the try block validating the processed records of every collection
ValidateProcessed ==
    /\ pc = "processed"
    /\ \E ok \in BOOLEAN :
        IF ok /\ ProcessedShapeValid(script, newRecs)
        THEN pc' = "detect" /\ UNCHANGED failure
        ELSE pc' = AfterValidationError /\ failure' = "validation"
    /\ UNCHANGED <<script, idx, batchAt, db, dbAtStart, newRecs, verdicts, ops,
                   runDriver, idleVars>>

\* detectDataChanges on the collection at idx
DetectChanges ==
    /\ pc = "detect"
    /\ \E fail \in {"none", "count", "sample", "hash"} :
        LET v == detectDataChanges(db[idx], newRecs[idx], runDriver, fail)
        IN  /\ verdicts' = [verdicts EXCEPT ![idx] = v]
            /\ IF v.threw
               THEN pc' = "exit1" /\ failure' = "detect" /\ idx' = 1
               ELSE /\ pc' = IF idx < NumCollections THEN "detect" ELSE "decide"
                    /\ idx' = IF idx < NumCollections THEN idx + 1 ELSE 1
                    /\ UNCHANGED failure
    /\ UNCHANGED <<script, batchAt, db, dbAtStart, newRecs, ops, runDriver,
                   idleVars>>

\* return when no verdict says changed, go on to clear otherwise
SkipOrUpdate ==
    /\ pc = "decide"
    /\ pc' = IF NeedsUpdate(verdicts) THEN "clear" ELSE "skipped"
    /\ UNCHANGED <<script, idx, batchAt, db, dbAtStart, newRecs, verdicts, ops,
                   failure, runDriver, idleVars>>

\* clearTable on the collection at idx: TRUNCATE, its own statement
ClearTable ==
    /\ pc = "clear"
    /\ \E ok \in BOOLEAN :
        IF ok
        THEN /\ db' = [db EXCEPT ![idx] = {}]
             /\ ops' = Append(ops, [op |-> "clear", coll |-> idx])
             /\ pc' = IF idx < NumCollections THEN "clear" ELSE "insert"
             /\ idx' = IF idx < NumCollections THEN idx + 1 ELSE 1
             /\ UNCHANGED failure
        ELSE /\ pc' = "exit1" /\ failure' = "clear"
             /\ UNCHANGED <<db, ops, idx>>
    /\ UNCHANGED <<script, batchAt, dbAtStart, newRecs, verdicts, runDriver,
                   idleVars>>

\* one round of batchInsert's loop on the collection at idx (the single
\* insert of seed-financial is one batch); an empty record list is skipped
InsertBatch ==
    /\ pc = "insert"
    /\ LET records == newRecs[idx]
           batch == SubSeq(records, batchAt + 1,
                           Min(batchAt + BatchSize, Len(records)))
           lastBatch == batchAt + BatchSize >= Len(records)
           nextPc == IF idx < NumCollections THEN "insert" ELSE "exit0"
           nextIdx == IF idx < NumCollections THEN idx + 1 ELSE idx
       IN  IF Len(records) = 0
           THEN /\ pc' = nextPc /\ idx' = nextIdx
                /\ UNCHANGED <<db, ops, batchAt, failure>>
           ELSE \E ok \in BOOLEAN :
                IF ok /\ CanInsert(db[idx], batch)
                THEN /\ db' = [db EXCEPT ![idx] = @ \cup SeqRange(batch)]
                     /\ ops' = Append(ops, [op |-> "insert", coll |-> idx])
                     /\ pc' = IF lastBatch THEN nextPc ELSE "insert"
                     /\ idx' = IF lastBatch THEN nextIdx ELSE idx
                     /\ batchAt' = IF lastBatch THEN 0 ELSE batchAt + BatchSize
                     /\ UNCHANGED failure
                ELSE /\ pc' = "exit1" /\ failure' = "insert"
                     /\ UNCHANGED <<db, ops, idx, batchAt>>
    /\ UNCHANGED <<script, dbAtStart, newRecs, verdicts, runDriver, idleVars>>

(***************************************************************************)
(* Housing pipeline: normalise, overlay, deduplicate, match demolitions    *)
(***************************************************************************)

Digits == {"0", "1", "2", "3", "4", "5", "6", "7", "8", "9"}

DigitValue(c) == CharCode(c) - 48

\* the longest prefix of s made of digits
RECURSIVE DigitPrefix(_)
DigitPrefix(s) ==
    IF s = <<>> \/ Head(s) \notin Digits THEN <<>>
    ELSE <<Head(s)>> \o DigitPrefix(Tail(s))

RECURSIVE DigitsValue(_)
DigitsValue(ds) ==
    IF ds = <<>> THEN 0
    ELSE DigitsValue(SubSeq(ds, 1, Len(ds) - 1)) * 10 + DigitValue(ds[Len(ds)])

\* parseInt(s, 10) on a string: optional sign, then digits up to the first
\* other character; NaN when there is no digit (null and undefined included)
ParseInt(s) ==
    LET neg == s # <<>> /\ Head(s) = "-"
        body == IF neg THEN Tail(s) ELSE s
        ds == DigitPrefix(body)
    IN  IF ds = <<>> THEN NaN
        ELSE IF neg THEN 0 - DigitsValue(ds) ELSE DigitsValue(ds)

\* Infinity, in tenths
Infinity == 99999

\* parseFloat(s), in tenths (digits after the first decimal are cut off):
\* optional sign, digits, optional fraction; "Infinity"; NaN otherwise
ParseFloat(s) ==
    LET neg == s # <<>> /\ Head(s) = "-"
        body == IF neg THEN Tail(s) ELSE s
        ds == DigitPrefix(body)
        rest == SubSeq(body, Len(ds) + 1, Len(body))
        frac == IF Len(rest) >= 2 /\ rest[1] = "." /\ rest[2] \in Digits
                THEN DigitValue(rest[2]) ELSE 0
        hasFrac == Len(rest) >= 2 /\ rest[1] = "." /\ rest[2] \in Digits
        magnitude == DigitsValue(ds) * 10 + frac
    IN  IF body = <<"I", "n", "f", "i", "n", "i", "t", "y">>
        THEN IF neg THEN 0 - Infinity ELSE Infinity
        ELSE IF ds = <<>> /\ ~hasFrac THEN NaN
        ELSE IF neg THEN 0 - magnitude ELSE magnitude

IsNaN(x) == x = NaN

\* x || 0 on a number in tenths
OrZero(x) == IF IsNaN(x) \/ x = 0 THEN 0 ELSE x

\* Math.round of a number in tenths: the nearest integer, halves upwards
MathRound(t) ==
    IF IsNaN(t) THEN NaN
    ELSE IF t = Infinity \/ t = 0 - Infinity THEN t
    ELSE (t + 5) \div 10

\* mutant: nine digits are returned without the leading zero
normalizeBBLUnpadded(bbl) ==
    IF ~Truthy(bbl) THEN NULL
    ELSE LET numeric == SelectSeq(bbl, LAMBDA c : c \in Digits)
         IN  IF Len(numeric) \in {9, 10} THEN numeric ELSE NULL

\* normalizeBBL: the digits of the value when there are 10, "0" and the
\* digits when there are 9, null otherwise
normalizeBBL(bbl) ==
    IF ~Truthy(bbl) THEN NULL
    ELSE LET numeric == SelectSeq(bbl, LAMBDA c : c \in Digits)
         IN  IF Len(numeric) = 10 THEN numeric
             ELSE IF Len(numeric) = 9 THEN <<"0">> \o numeric
             ELSE NULL

MinYear == 2014
MaxYear == 2025

\* the building processDCPHousing makes of an accepted record
DcpBuilding(record, completionYear, totalUnits) ==
    LET jobNumber == IF Truthy(record.Job_Number) THEN record.Job_Number
                     ELSE <<"D", "C", "P", "-">> \o record.OBJECTID
    IN  [id |-> jobNumber,
         jobNumber |-> jobNumber,
         jobType |-> IF record.Job_Type # "" THEN record.Job_Type ELSE "Unknown",
         address |-> IF record.Address # "" THEN record.Address
                     ELSE "Address Not Available",
         bbl |-> normalizeBBL(record.BBL),
         longitude |-> ParseFloat(record.Longitude),
         latitude |-> ParseFloat(record.Latitude),
         completionYear |-> completionYear,
         totalUnits |-> totalUnits,
         affordableUnits |-> 0,
         affordablePercentage |-> 0,
         extremeLowIncomeUnits |-> 0,
         veryLowIncomeUnits |-> 0,
         lowIncomeUnits |-> 0,
         moderateIncomeUnits |-> 0,
         middleIncomeUnits |-> 0,
         otherIncomeUnits |-> 0,
         studioUnits |-> 0,
         oneBrUnits |-> 0,
         twoBrUnits |-> 0,
         threeBrUnits |-> 0,
         fourBrUnits |-> 0,
         fiveBrUnits |-> 0,
         sixBrUnits |-> 0,
         unknownBrUnits |-> totalUnits,
         buildingType |-> classifyBuildingType(totalUnits, 0, record.Job_Type,
                                               FALSE, record.Bldg_Class),
         physicalBuildingType |->
             getPhysicalBuildingType(totalUnits, record.Bldg_Class),
         buildingClass |-> record.Bldg_Class,
         dataSource |-> "dcp",
         hasAffordableOverlay |-> FALSE,
         housingNyProjectId |-> NULL,
         housingNyProjectName |-> NULL,
         housingNyConstructionType |-> NULL,
         housingNyExtendedAffordabilityOnly |-> FALSE]

\* processDCPHousing: records with unusable coordinates, a year outside
\* 2014..2025 or no positive unit count are skipped
RECURSIVE processDCPHousing(_)
processDCPHousing(records) ==
    IF records = <<>> THEN <<>>
    ELSE LET record == Head(records)
             lat == ParseFloat(record.Latitude)
             lon == ParseFloat(record.Longitude)
             completionYear == ParseInt(record.CompltYear)
             classANet == OrZero(ParseFloat(record.ClassANet))
             totalUnits == MathRound(classANet)
             rest == processDCPHousing(Tail(records))
         IN  IF IsNaN(lat) \/ IsNaN(lon) \/ lat = 0 \/ lon = 0 THEN rest
             ELSE IF IsNaN(completionYear) \/ completionYear < MinYear
                     \/ completionYear > MaxYear THEN rest
             ELSE IF totalUnits <= 0 THEN rest
             ELSE <<DcpBuilding(record, completionYear, totalUnits)>> \o rest

\* a + b on numbers: NaN when either is
JsAdd(a, b) == IF IsNaN(a) \/ IsNaN(b) THEN NaN ELSE a + b

\* parseInt(x || 0, 10)
ParseIntOrZero(x) == IF Truthy(x) THEN ParseInt(x) ELSE 0

\* new Date(s).getFullYear() for a timestamp "YYYY-MM-DDT00:00:00.000"
\* (local time); NaN for an invalid date
FullYear(s) ==
    LET y == DigitPrefix(SubSeq(s, 1, Min(4, Len(s))))
    IN  IF Len(y) = 4 THEN DigitsValue(y) ELSE NaN

\* (affordableUnits / totalUnits) * 100, the fraction cut off
Percentage(affordableUnits, totalUnits) ==
    IF JsGt(totalUnits, 0)
    THEN IF IsNaN(affordableUnits) THEN NaN
         ELSE (affordableUnits * 100) \div totalUnits
    ELSE 0

\* the affordableData object built from a Housing NY record
AffordableData(record, totalUnits) ==
    LET affordableUnits ==
            JsAdd(JsAdd(JsAdd(JsAdd(JsAdd(0,
                ParseIntOrZero(record.extremely_low_income_units)),
                ParseIntOrZero(record.very_low_income_units)),
                ParseIntOrZero(record.low_income_units)),
                ParseIntOrZero(record.moderate_income_units)),
                ParseIntOrZero(record.middle_income_units))
    IN  [affordableUnits |-> affordableUnits,
         affordablePercentage |-> Percentage(affordableUnits, totalUnits),
         extremeLowIncomeUnits |-> ParseIntOrZero(record.extremely_low_income_units),
         veryLowIncomeUnits |-> ParseIntOrZero(record.very_low_income_units),
         lowIncomeUnits |-> ParseIntOrZero(record.low_income_units),
         moderateIncomeUnits |-> ParseIntOrZero(record.moderate_income_units),
         middleIncomeUnits |-> ParseIntOrZero(record.middle_income_units),
         otherIncomeUnits |-> ParseIntOrZero(record.other_income_units),
         studioUnits |-> ParseIntOrZero(record.studio_units),
         oneBrUnits |-> ParseIntOrZero(record.one_br_units),
         twoBrUnits |-> ParseIntOrZero(record.two_br_units),
         threeBrUnits |-> ParseIntOrZero(record.three_br_units),
         fourBrUnits |-> ParseIntOrZero(record.four_br_units),
         fiveBrUnits |-> ParseIntOrZero(record.five_br_units),
         sixBrUnits |-> ParseIntOrZero(record.six_br_units),
         unknownBrUnits |-> ParseIntOrZero(record.unknown_br_units),
         projectId |-> record.project_id,
         projectName |-> record.project_name,
         constructionType |-> record.reporting_construction_type,
         extendedAffordabilityOnly |-> record.extended_affordability_only = "Yes"]

\* affordableMap.set(key, value)
MapSet(map, key, value) ==
    [k \in DOMAIN map \cup {key} |-> IF k = key THEN value ELSE map[k]]

\* whether a Housing NY record gets past the continue statements
AcceptedHousingNy(record) ==
    LET completionYear == FullYear(record.building_completion_date)
        totalUnits == IF Truthy(record.all_counted_units)
                      THEN ParseInt(record.all_counted_units)
                      ELSE ParseIntOrZero(record.total_units)
    IN  /\ Truthy(normalizeBBL(record.bbl))
        /\ Truthy(record.building_completion_date)
        /\ ~(JsLt(completionYear, MinYear) \/ JsGt(completionYear, MaxYear))
        /\ totalUnits # 0

\* mutant: a later record replaces the kept one on a tie as well
KeepsCurrentOnTie(map, bbl, affordableData) ==
    bbl \notin DOMAIN map
        \/ JsGe(affordableData.affordableUnits, map[bbl].affordableUnits)

\* !affordableMap.has(bbl) || affordableData.affordableUnits >
\* affordableMap.get(bbl).affordableUnits
KeepsCurrent(map, bbl, affordableData) ==
    bbl \notin DOMAIN map
        \/ JsGt(affordableData.affordableUnits, map[bbl].affordableUnits)

\* the for loop of processHousingNY from the map built so far
RECURSIVE HousingNyLoop(_, _)
HousingNyLoop(records, map) ==
    IF records = <<>> THEN map
    ELSE LET record == Head(records)
             bbl == normalizeBBL(record.bbl)
             totalUnits == IF Truthy(record.all_counted_units)
                           THEN ParseInt(record.all_counted_units)
                           ELSE ParseIntOrZero(record.total_units)
             affordableData == AffordableData(record, totalUnits)
         IN  IF ~AcceptedHousingNy(record)
             THEN HousingNyLoop(Tail(records), map)
             ELSE IF KeepsCurrent(map, bbl, affordableData)
             THEN HousingNyLoop(Tail(records), MapSet(map, bbl, affordableData))
             ELSE HousingNyLoop(Tail(records), map)

EmptyMap == <<>>

processHousingNY(records) == HousingNyLoop(records, EmptyMap)

\* Object.assign(building, {...})
ObjectAssign(building, affordableData) ==
    [building EXCEPT
        !.affordableUnits = affordableData.affordableUnits,
        !.affordablePercentage = affordableData.affordablePercentage,
        !.extremeLowIncomeUnits = affordableData.extremeLowIncomeUnits,
        !.veryLowIncomeUnits = affordableData.veryLowIncomeUnits,
        !.lowIncomeUnits = affordableData.lowIncomeUnits,
        !.moderateIncomeUnits = affordableData.moderateIncomeUnits,
        !.middleIncomeUnits = affordableData.middleIncomeUnits,
        !.otherIncomeUnits = affordableData.otherIncomeUnits,
        !.studioUnits = affordableData.studioUnits,
        !.oneBrUnits = affordableData.oneBrUnits,
        !.twoBrUnits = affordableData.twoBrUnits,
        !.threeBrUnits = affordableData.threeBrUnits,
        !.fourBrUnits = affordableData.fourBrUnits,
        !.fiveBrUnits = affordableData.fiveBrUnits,
        !.sixBrUnits = affordableData.sixBrUnits,
        !.unknownBrUnits = affordableData.unknownBrUnits,
        !.housingNyProjectId = affordableData.projectId,
        !.housingNyProjectName = affordableData.projectName,
        !.housingNyConstructionType = affordableData.constructionType,
        !.housingNyExtendedAffordabilityOnly =
            affordableData.extendedAffordabilityOnly,
        !.dataSource = "dcp-affordable",
        !.hasAffordableOverlay = TRUE]

\* mutant: the building keeps the type it had before the overlay
NotReclassified(building) == building

\* the reclassification of a building that has the affordable overlay
Reclassified(building) ==
    [building EXCEPT
        !.buildingType = classifyBuildingType(building.totalUnits,
                             building.affordableUnits, building.jobType,
                             TRUE, building.buildingClass)]

\* mutant: the unknown-bedroom count adds up over applications
OverlaidAccumulating(building, affordableData) ==
    Reclassified([ObjectAssign(building, affordableData) EXCEPT
                      !.unknownBrUnits = JsAdd(building.unknownBrUnits,
                                               affordableData.unknownBrUnits)])

\* one matched building of the overlay loop
Overlaid(building, affordableData) ==
    Reclassified(ObjectAssign(building, affordableData))

\* mutant: every building with an identifier is marked as overlaid
overlayAffordableDataMarkAll(bs, map) ==
    [i \in 1..Len(bs) |->
        IF ~Truthy(bs[i].bbl) THEN bs[i]
        ELSE IF bs[i].bbl \in DOMAIN map THEN Overlaid(bs[i], map[bs[i].bbl])
        ELSE [bs[i] EXCEPT !.hasAffordableOverlay = TRUE]]

\* mutant: the entry is not looked up under the building's own identifier
overlayAffordableDataAnyEntry(bs, map) ==
    [i \in 1..Len(bs) |->
        IF ~Truthy(bs[i].bbl) THEN bs[i]
        ELSE IF DOMAIN map # {}
        THEN Overlaid(bs[i], map[CHOOSE k \in DOMAIN map : TRUE])
        ELSE bs[i]]

\* overlayAffordableData: buildings without an identifier or without an
\* entry in the map are left as they are
overlayAffordableData(bs, map) ==
    [i \in 1..Len(bs) |->
        IF ~Truthy(bs[i].bbl) THEN bs[i]
        ELSE IF bs[i].bbl \in DOMAIN map THEN Overlaid(bs[i], map[bs[i].bbl])
        ELSE bs[i]]

\* Math.abs on a number in tenths or on an integer
MathAbs(x) == IF IsNaN(x) THEN NaN ELSE IF x < 0 THEN 0 - x ELSE x

\* the demolition processDCPDemolitions makes of an accepted record
Demolition(record, completionYear) ==
    LET jobNumber == IF Truthy(record.Job_Number) THEN record.Job_Number
                     ELSE <<"D", "C", "P", "-", "D", "M", "-">> \o record.OBJECTID
        classAInit == MathRound(MathAbs(OrZero(ParseFloat(record.ClassAInit))))
        classANet == MathRound(OrZero(ParseFloat(record.ClassANet)))
    IN  [id |-> jobNumber,
         jobNumber |-> jobNumber,
         jobType |-> "Demolition",
         bbl |-> normalizeBBL(record.BBL),
         demolitionYear |-> completionYear,
         classAInit |-> classAInit,
         classANet |-> classANet,
         estimatedUnits |-> IF classAInit # 0 THEN classAInit
                            ELSE MathAbs(classANet),
         buildingClass |-> record.Bldg_Class,
         hasNewConstruction |-> FALSE]

\* processDCPDemolitions: other job types are passed over, records with a
\* year outside 2014..2025 are skipped
RECURSIVE processDCPDemolitions(_)
processDCPDemolitions(records) ==
    IF records = <<>> THEN <<>>
    ELSE LET record == Head(records)
             completionYear == ParseInt(record.CompltYear)
             rest == processDCPDemolitions(Tail(records))
         IN  IF record.Job_Type # "Demolition" THEN rest
             ELSE IF IsNaN(completionYear) \/ completionYear < MinYear
                     \/ completionYear > MaxYear THEN rest
             ELSE <<Demolition(record, completionYear)>> \o rest

\* new Set(buildings.map(b => b.bbl).filter(Boolean))
BuildingBBLs(bs) == {bs[i].bbl : i \in {j \in 1..Len(bs) : Truthy(bs[j].bbl)}}

\* mutant: a demolition without identifier is flagged as well
MatchedAlsoWithoutBbl(demolition, buildingBBLs) ==
    ~Truthy(demolition.bbl) \/ demolition.bbl \in buildingBBLs

\* demolition.bbl && buildingBBLs.has(demolition.bbl)
Matched(demolition, buildingBBLs) ==
    Truthy(demolition.bbl) /\ demolition.bbl \in buildingBBLs

\* the matching loop
MatchDemolitionsWith(ds, bs) ==
    [i \in 1..Len(ds) |->
        IF Matched(ds[i], BuildingBBLs(bs))
        THEN [ds[i] EXCEPT !.hasNewConstruction = TRUE]
        ELSE ds[i]]

MaxRaw == 2

BBL1Dashed == <<"1", "-", "0", "0", "0", "1", "2", "-", "3", "4", "5", "6">>
BBL2Short == <<"2", "0", "0", "0", "0", "0", "0", "0", "1">>
BBL3 == <<"3", "0", "0", "0", "0", "0", "0", "0", "0", "2">>

DcpRecord(job, objectId, bbl, year, net, jobType, class, lat) ==
    [Job_Number |-> job, OBJECTID |-> objectId, BBL |-> bbl,
     CompltYear |-> year, ClassANet |-> net, Job_Type |-> jobType,
     Bldg_Class |-> class, Latitude |-> lat,
     Longitude |-> <<"-", "7", "3", ".", "9">>, Address |-> "a"]

Lat == <<"4", "0", ".", "7">>

DcpInputs ==
    {DcpRecord(Job1, <<"1">>, BBL1, <<"2", "0", "2", "0">>, <<"4", "0">>,
               "New Building", NULL, Lat),
     DcpRecord(Job2, <<"2">>, BBL1Dashed, <<"2", "0", "2", "0">>, <<"4", "5">>,
               "Alteration", NULL, Lat),
     DcpRecord(Job2, <<"3">>, BBL1, <<"2", "0", "2", "1">>, <<"4", "0">>,
               "New Building", <<"D", "6">>, Lat),
     DcpRecord(NULL, <<"7">>, NULL, <<"2", "0", "2", "0">>, <<"3">>,
               "New Building", NULL, Lat),
     DcpRecord(Job1, <<"5">>, BBL2Short, <<"2", "0", "1", "6">>,
               <<"2", ".", "5">>, "New Building", <<"A", "1">>, Lat),
     DcpRecord(Job2, <<"6">>, BBL1, <<"2", "0", "1", "3">>, <<"4", "0">>,
               "New Building", NULL, Lat),
     DcpRecord(Job2, <<"8">>, BBL1, <<"2", "0", "2", "0">>, <<"4", "0">>,
               "New Building", NULL, <<"0">>),
     DcpRecord(<<"7">>, <<"9">>, BBL3, <<"2", "0", "2", "0">>, <<"4", "0">>,
               "New Building", NULL,
               <<"I", "n", "f", "i", "n", "i", "t", "y">>),
     DcpRecord(<<"8">>, <<"4">>, NULL, <<"2", "0", "2", "0">>,
               <<"I", "n", "f", "i", "n", "i", "t", "y">>,
               "New Building", NULL, Lat)}

NyRecord(bbl, date, units, eli, low, unknownBr, project) ==
    [bbl |-> bbl, building_completion_date |-> date,
     all_counted_units |-> units, total_units |-> NULL,
     extremely_low_income_units |-> eli, very_low_income_units |-> NULL,
     low_income_units |-> low, moderate_income_units |-> <<"0">>,
     middle_income_units |-> NULL, other_income_units |-> <<"1">>,
     studio_units |-> low, one_br_units |-> eli, two_br_units |-> NULL,
     three_br_units |-> NULL, four_br_units |-> NULL, five_br_units |-> NULL,
     six_br_units |-> NULL, unknown_br_units |-> unknownBr,
     project_id |-> project, project_name |-> project,
     reporting_construction_type |-> "New Construction",
     extended_affordability_only |-> "No"]

Date2020 == <<"2", "0", "2", "0", "-", "0", "6", "-", "3", "0">>
Date2018 == <<"2", "0", "1", "8", "-", "0", "6", "-", "3", "0">>
Date2010 == <<"2", "0", "1", "0", "-", "0", "6", "-", "3", "0">>

NyInputs ==
    {NyRecord(BBL1, Date2020, <<"5", "0">>, NULL, <<"5">>, <<"2">>, "a"),
     NyRecord(BBL1Dashed, Date2018, <<"6", "0">>, <<"5">>, NULL, NULL, "b"),
     NyRecord(BBL1, Date2020, <<"8", "0">>, <<"4">>, <<"4">>, <<"1">>, "c"),
     NyRecord(BBL2Short, Date2018, <<"1", "0">>, NULL, NULL, NULL, "d"),
     NyRecord(BBL1, Date2010, <<"9", "0">>, <<"9">>, <<"9">>, NULL, "e"),
     NyRecord(BBL1, Date2020, <<"0">>, <<"9">>, <<"9">>, NULL, "f")}

DemolitionRecord(job, objectId, bbl, year, jobType) ==
    [Job_Number |-> job, OBJECTID |-> objectId, BBL |-> bbl,
     CompltYear |-> year, Job_Type |-> jobType, ClassAInit |-> <<"2">>,
     ClassANet |-> <<"-", "2">>, Bldg_Class |-> NULL]

\* the demolition records of every run of the model
DemolitionInputs ==
    <<DemolitionRecord(Job1, <<"1">>, BBL1, <<"2", "0", "1", "6">>, "Demolition"),
      DemolitionRecord(Job2, <<"2">>, BBL1Dashed, <<"2", "0", "2", "2">>,
                       "Demolition"),
      DemolitionRecord(NULL, <<"3">>, NULL, <<"2", "0", "1", "6">>, "Demolition"),
      DemolitionRecord(<<"3">>, <<"4">>, BBL3, <<"2", "0", "1", "6">>,
                       "Demolition"),
      DemolitionRecord(<<"4">>, <<"5">>, BBL2Short, <<"2", "0", "1", "3">>,
                       "Demolition"),
      DemolitionRecord(<<"5">>, <<"6">>, BBL2Short, <<"2", "0", "1", "5">>,
                       "New Building")>>

SeqsUpTo(S, n) == UNION {[1..k -> S] : k \in 0..n}

HousingIdle ==
    /\ hpPc = "idle" /\ dcpRecords = <<>> /\ housingNyRecords = <<>>
    /\ demolitionRecords = <<>> /\ dcpBuildings = <<>>
    /\ housingNyMap = EmptyMap /\ buildingsWithOverlay = <<>>
    /\ remerged = <<>> /\ dedupedBuildings = <<>> /\ demolitions = <<>>
    /\ standaloneDemolitions = <<>>

HousingInit ==
    /\ hpPc = "fetched"
    /\ dcpRecords \in SeqsUpTo(DcpInputs, MaxRaw)
    /\ housingNyRecords \in SeqsUpTo(NyInputs, MaxRaw)
    /\ demolitionRecords = DemolitionInputs
    /\ dcpBuildings = <<>> /\ housingNyMap = EmptyMap
    /\ buildingsWithOverlay = <<>> /\ remerged = <<>>
    /\ dedupedBuildings = <<>> /\ demolitions = <<>>
    /\ standaloneDemolitions = <<>>

otherVars == <<clsVars, dedupVars, cdVars, runVars, sgVars, nbVars>>

\* const dcpBuildings = processDCPHousing(dcpRecords)
ProcessDCPHousing ==
    /\ hpPc = "fetched"
    /\ dcpBuildings' = processDCPHousing(dcpRecords)
    /\ hpPc' = "processed"
    /\ UNCHANGED <<dcpRecords, housingNyRecords, demolitionRecords, housingNyMap,
                   buildingsWithOverlay, remerged, dedupedBuildings, demolitions,
                   standaloneDemolitions, otherVars>>

\* const housingNyMap = processHousingNY(housingNyRecords)
ProcessHousingNY ==
    /\ hpPc = "processed"
    /\ housingNyMap' = processHousingNY(housingNyRecords)
    /\ hpPc' = "mapped"
    /\ UNCHANGED <<dcpRecords, housingNyRecords, demolitionRecords, dcpBuildings,
                   buildingsWithOverlay, remerged, dedupedBuildings, demolitions,
                   standaloneDemolitions, otherVars>>

\* const buildingsWithOverlay = overlayAffordableData(dcpBuildings,
\* housingNyMap): the buildings are changed in place and returned
OverlayAffordableData ==
    /\ hpPc = "mapped"
    /\ buildingsWithOverlay' = overlayAffordableData(dcpBuildings, housingNyMap)
    /\ dcpBuildings' = buildingsWithOverlay'
    /\ hpPc' = "overlaid"
    /\ UNCHANGED <<dcpRecords, housingNyRecords, demolitionRecords, housingNyMap,
                   remerged, dedupedBuildings, demolitions,
                   standaloneDemolitions, otherVars>>

\* overlayAffordableData applied once more to its own result with the same
\* map
OverlayAgain ==
    /\ hpPc = "overlaid"
    /\ remerged' = overlayAffordableData(buildingsWithOverlay, housingNyMap)
    /\ hpPc' = "remerged"
    /\ UNCHANGED <<dcpRecords, housingNyRecords, demolitionRecords, dcpBuildings,
                   housingNyMap, buildingsWithOverlay, dedupedBuildings,
                   demolitions, standaloneDemolitions, otherVars>>

\* const buildings = deduplicateBuildings(buildingsWithOverlay)
DeduplicateBuildings ==
    /\ hpPc = "overlaid"
    /\ dedupedBuildings' = deduplicateBuildings(buildingsWithOverlay)
    /\ hpPc' = "deduplicated"
    /\ UNCHANGED <<dcpRecords, housingNyRecords, demolitionRecords, dcpBuildings,
                   housingNyMap, buildingsWithOverlay, remerged, demolitions,
                   standaloneDemolitions, otherVars>>

\* const demolitions = processDCPDemolitions(demolitionRecords)
ProcessDCPDemolitions ==
    /\ hpPc = "deduplicated"
    /\ demolitions' = processDCPDemolitions(demolitionRecords)
    /\ hpPc' = "demolitions"
    /\ UNCHANGED <<dcpRecords, housingNyRecords, demolitionRecords, dcpBuildings,
                   housingNyMap, buildingsWithOverlay, remerged,
                   dedupedBuildings, standaloneDemolitions, otherVars>>

\* the matching loop and the standalone filter
MatchDemolitions ==
    /\ hpPc = "demolitions"
    /\ demolitions' = MatchDemolitionsWith(demolitions, dedupedBuildings)
    /\ standaloneDemolitions' =
           SelectSeq(demolitions', LAMBDA d : ~d.hasNewConstruction)
    /\ hpPc' = "matched"
    /\ UNCHANGED <<dcpRecords, housingNyRecords, demolitionRecords, dcpBuildings,
                   housingNyMap, buildingsWithOverlay, remerged,
                   dedupedBuildings, otherVars>>

(***************************************************************************)
(* Geometry simplifier.  A point is <<x, y>> on an integer grid, a ring a  *)
(* sequence of points; the tolerance is in grid units.  Distances are      *)
(* compared exactly: with lineLength the same for all points of a call,    *)
(* dist > maxDist compares the numerators, and maxDist > tolerance         *)
(* compares the squares.                                                   *)
(***************************************************************************)



\* (y2 - y1) ** 2 + (x2 - x1) ** 2, the square of lineLength
LineLengthSquared(p1, p2) ==
    (p2[2] - p1[2]) * (p2[2] - p1[2]) + (p2[1] - p1[1]) * (p2[1] - p1[1])

\* Math.abs((y2 - y1) * x0 - (x2 - x1) * y0 + x2 * y1 - y2 * x1), the
\* numerator of dist
DistNumerator(p0, p1, p2) ==
    MathAbs((p2[2] - p1[2]) * p0[1] - (p2[1] - p1[1]) * p0[2]
        + p2[1] * p1[2] - p2[2] * p1[1])

\* mutant: on a tie the last of the farthest points is taken
RECURSIVE FarthestLastOnTie(_, _, _, _)
FarthestLastOnTie(pts, i, maxNum, maxIndex) ==
    IF i > Len(pts) - 1 THEN <<maxNum, maxIndex>>
    ELSE LET num == DistNumerator(pts[i], pts[1], pts[Len(pts)])
         IN  IF num >= maxNum /\ num > 0
             THEN FarthestLastOnTie(pts, i + 1, num, i)
             ELSE FarthestLastOnTie(pts, i + 1, maxNum, maxIndex)

\* the for loop over the interior points from index i on: <<numerator of
\* maxDist, maxIndex>>, indices counted from 1
RECURSIVE Farthest(_, _, _, _)
Farthest(pts, i, maxNum, maxIndex) ==
    IF i > Len(pts) - 1 THEN <<maxNum, maxIndex>>
    ELSE LET num == DistNumerator(pts[i], pts[1], pts[Len(pts)])
         IN  IF num > maxNum
             THEN Farthest(pts, i + 1, num, i)
             ELSE Farthest(pts, i + 1, maxNum, maxIndex)

\* maxDist > tolerance, for maxDist = maxNum / sqrt(lengthSquared)
ExceedsTolerance(maxNum, lengthSquared, tol) ==
    tol < 0 \/ maxNum * maxNum > tol * tol * lengthSquared

\* mutant: the join point is in the result twice
Concatenation(left, right) == left \o right

\* [...left.slice(0, -1), ...right]
Join(left, right) == SubSeq(left, 1, Len(left) - 1) \o right

\* mutant: a line of length zero keeps both its end points
ZeroLengthLineBothEnds(pts) == <<pts[1], pts[Len(pts)]>>

\* if (lineLength === 0) return [points[0]]
ZeroLengthLine(pts) == <<pts[1]>>

RECURSIVE simplifyLine(_, _)
simplifyLine(pts, tol) ==
    IF Len(pts) <= 2 THEN pts
    ELSE LET first == pts[1]
             last == pts[Len(pts)]
             lengthSquared == LineLengthSquared(first, last)
             far == Farthest(pts, 2, 0, 1)
         IN  IF lengthSquared = 0 THEN ZeroLengthLine(pts)
             ELSE IF ExceedsTolerance(far[1], lengthSquared, tol)
             THEN Join(simplifyLine(SubSeq(pts, 1, far[2]), tol),
                       simplifyLine(SubSeq(pts, far[2], Len(pts)), tol))
             ELSE <<first, last>>

Geometry(type, coordinates) == [type |-> type, coordinates |-> coordinates]

\* simplifyGeometry: ring by ring for Polygon and MultiPolygon, unchanged
\* for a Point and for any other type
simplifyGeometry(g, tol) ==
    IF g.type = "Point" THEN g
    ELSE IF g.type = "Polygon"
    THEN Geometry("Polygon",
                  [r \in 1..Len(g.coordinates) |->
                      simplifyLine(g.coordinates[r], tol)])
    ELSE IF g.type = "MultiPolygon"
    THEN Geometry("MultiPolygon",
                  [q \in 1..Len(g.coordinates) |->
                      [r \in 1..Len(g.coordinates[q]) |->
                          simplifyLine(g.coordinates[q][r], tol)]])
    ELSE g

MaxPoints == 4

GridPoints == {<<x, y>> : x \in 0..3, y \in 0..1}
Rings == SeqsUpTo(GridPoints, MaxPoints)
Tolerances == {0, 1, 2}

\* a second ring of the geometries of the model: a closed triangle
Hole == <<<<0, 0>>, <<1, 0>>, <<1, 1>>, <<0, 0>>>>

NoGeometry == Geometry("", <<>>)

\* the geometries built around a ring; around the empty ring also the
\* geometries without rings or polygons, and the missing geometry
GeometriesOf(ring) ==
    {Geometry("Polygon", <<ring, Hole>>),
     Geometry("MultiPolygon", <<<<ring>>, <<Hole, ring>>>>),
     Geometry("LineString", ring)}
    \cup (IF ring # <<>> THEN {Geometry("Point", ring[1])}
          ELSE {Geometry("Polygon", <<>>), Geometry("MultiPolygon", <<>>),
                Geometry("MultiPolygon", <<<<>>>>), NoGeometry})

(***************************************************************************)
(* Centroid.  A quotient of two integers is kept exactly, as the pair      *)
(* <<numerator, denominator>> in lowest terms with a positive denominator. *)
(***************************************************************************)

RECURSIVE Gcd(_, _)
Gcd(a, b) == IF b = 0 THEN a ELSE Gcd(b, a % b)

\* n / d for d > 0
Quotient(n, d) ==
    LET g == Gcd(MathAbs(n), d) IN <<n \div g, d \div g>>

\* processRing: the ring's points added to <<totalX, totalY, totalPoints>>
RECURSIVE processRing(_, _)
processRing(ring, totals) ==
    IF ring = <<>> THEN totals
    ELSE processRing(Tail(ring),
                     <<totals[1] + Head(ring)[1], totals[2] + Head(ring)[2],
                       totals[3] + 1>>)

\* processRing(polygon[0]), for a polygon that has a ring
processPolygon(polygon, totals) == processRing(polygon[1], totals)

\* for (const polygon of geometry.coordinates) from position q on
RECURSIVE processPolygons(_, _, _)
processPolygons(polygons, q, totals) ==
    IF q > Len(polygons) THEN totals
    ELSE processPolygons(polygons, q + 1, processPolygon(polygons[q], totals))

\* the call raises a TypeError: processRing is handed polygon[0] of a
\* polygon without rings, and `for ... of undefined` raises
CentroidRaises(g) ==
    \/ g.type = "Polygon" /\ Len(g.coordinates) = 0
    \/ g.type = "MultiPolygon"
           /\ \E q \in 1..Len(g.coordinates) : Len(g.coordinates[q]) = 0

\* calculateCentroid, for a geometry it does not raise on
calculateCentroid(g) ==
    IF g.type = "" THEN <<NULL, NULL>>
    ELSE IF g.type = "Point" THEN g.coordinates
    ELSE LET totals ==
                 IF g.type = "Polygon"
                 THEN processPolygon(g.coordinates, <<0, 0, 0>>)
                 ELSE IF g.type = "MultiPolygon"
                 THEN processPolygons(g.coordinates, 1, <<0, 0, 0>>)
                 ELSE <<0, 0, 0>>
         IN  IF totals[3] = 0 THEN <<NULL, NULL>>
             ELSE <<Quotient(totals[1], totals[3]),
                    Quotient(totals[2], totals[3])>>

SimplifyIdle ==
    /\ sgPc = "idle" /\ points = <<>> /\ tolerance = 0 /\ simplified = <<>>
    /\ geometry = NoGeometry /\ geometrySimplified = NoGeometry
    /\ centroid = <<>>
    /\ call = <<>> /\ caller = <<>> /\ depth = 0

SimplifyInit ==
    /\ sgPc = "input"
    /\ points \in Rings
    /\ tolerance \in Tolerances
    /\ geometry \in GeometriesOf(points)
    /\ simplified = <<>>
    /\ geometrySimplified = NoGeometry
    /\ centroid = <<>>
    /\ call = <<>> /\ caller = <<>> /\ depth = 0

\* const [centroidLon, centroidLat] = calculateCentroid(feature.geometry);
\* a TypeError ends the processing of the features
CalculateCentroid ==
    /\ sgPc = "input"
    /\ IF CentroidRaises(geometry)
       THEN sgPc' = "raised" /\ UNCHANGED centroid
       ELSE sgPc' = "centroid" /\ centroid' = calculateCentroid(geometry)
    /\ UNCHANGED <<points, tolerance, geometry, simplified, geometrySimplified,
                   call, caller, depth, clsVars, dedupVars, cdVars, runVars, hpVars, nbVars>>

SimplifyLine ==
    /\ sgPc = "centroid"
    /\ simplified' = simplifyLine(points, tolerance)
    /\ sgPc' = "line"
    /\ UNCHANGED <<points, tolerance, geometry, geometrySimplified, centroid,
                   call, caller, depth, clsVars, dedupVars, cdVars, runVars, hpVars, nbVars>>

SimplifyGeometry ==
    /\ sgPc = "line"
    /\ geometrySimplified' = simplifyGeometry(geometry, tolerance)
    /\ sgPc' = "done"
    /\ UNCHANGED <<points, tolerance, geometry, simplified, centroid,
                   call, caller, depth, clsVars, dedupVars, cdVars, runVars, hpVars, nbVars>>

(***************************************************************************)
(* The recursion of simplifyLine, call by call: a chain of nested calls    *)
(* goes down into the left or the right part for as long as the innermost  *)
(* call recurses.  Negative tolerances are among the inputs here.          *)
(***************************************************************************)

MaxDepth == 5

AnyTolerances == Tolerances \cup {-1}

\* the call does not return before the recursion: more than two points,
\* end points apart, maxDist > tolerance
Recurses(pts, tol) ==
    /\ Len(pts) > 2
    /\ LineLengthSquared(pts[1], pts[Len(pts)]) # 0
    /\ ExceedsTolerance(Farthest(pts, 2, 0, 1)[1],
                        LineLengthSquared(pts[1], pts[Len(pts)]), tol)

\* points.slice(0, maxIndex + 1)
LeftPart(pts) == SubSeq(pts, 1, Farthest(pts, 2, 0, 1)[2])

\* points.slice(maxIndex)
RightPart(pts) == SubSeq(pts, Farthest(pts, 2, 0, 1)[2], Len(pts))

DescentInit ==
    /\ sgPc = "descent"
    /\ points \in Rings
    /\ tolerance \in AnyTolerances
    /\ simplified = <<>>
    /\ geometry = NoGeometry /\ geometrySimplified = NoGeometry
    /\ centroid = <<>>
    /\ call = points /\ caller = <<>> /\ depth = 0

\* const left = simplifyLine(points.slice(0, maxIndex + 1), tolerance)
DescendLeft ==
    /\ sgPc = "descent" /\ depth < MaxDepth
    /\ Recurses(call, tolerance)
    /\ caller' = call
    /\ call' = LeftPart(call)
    /\ depth' = depth + 1
    /\ UNCHANGED <<sgPc, points, tolerance, simplified, geometry,
                   geometrySimplified, centroid,
                   clsVars, dedupVars, cdVars, runVars, hpVars, nbVars>>

\* const right = simplifyLine(points.slice(maxIndex), tolerance)
DescendRight ==
    /\ sgPc = "descent" /\ depth < MaxDepth
    /\ Recurses(call, tolerance)
    /\ caller' = call
    /\ call' = RightPart(call)
    /\ depth' = depth + 1
    /\ UNCHANGED <<sgPc, points, tolerance, simplified, geometry,
                   geometrySimplified, centroid,
                   clsVars, dedupVars, cdVars, runVars, hpVars, nbVars>>

(***************************************************************************)
(* Identifier normaliser, on its own.  A raw value is null or a string:    *)
(* digits with other characters put in between.                            *)
(***************************************************************************)

MaxDigits == 11

\* the first n characters of "1234567890" repeated
DigitRun(n) == [i \in 1..n |-> DecimalString(i % 10)[1]]

\* n zeros
ZeroRun(n) == [i \in 1..n |-> "0"]

\* s with c put in after position k, at the end when s is shorter
InsertAt(s, k, c) ==
    LET j == Min(k, Len(s))
    IN  SubSeq(s, 1, j) \o <<c>> \o SubSeq(s, j + 1, Len(s))

Separators == {"-", " ", "a", "."}

DigitStrings ==
    {DigitRun(n) : n \in 0..MaxDigits} \cup {ZeroRun(n) : n \in 0..MaxDigits}

RawBbls ==
    {NULL} \cup DigitStrings
    \cup {InsertAt(s, k, c) :
              s \in DigitStrings, k \in 0..MaxDigits, c \in Separators}
    \cup {InsertAt(InsertAt(s, 1, "-"), 7, c) :
              s \in DigitStrings, c \in Separators}

NormalizeIdle ==
    nbPc = "idle" /\ rawBbl = NULL /\ normalized = NULL /\ renormalized = NULL

NormalizeInit ==
    /\ nbPc = "input"
    /\ rawBbl \in RawBbls
    /\ normalized = NULL
    /\ renormalized = NULL

NormalizeBBL ==
    /\ nbPc = "input"
    /\ normalized' = normalizeBBL(rawBbl)
    /\ nbPc' = "normalized"
    /\ UNCHANGED <<rawBbl, renormalized,
                   clsVars, dedupVars, cdVars, runVars, hpVars, sgVars>>

NormalizeAgain ==
    /\ nbPc = "normalized"
    /\ renormalized' = normalizeBBL(normalized)
    /\ nbPc' = "again"
    /\ UNCHANGED <<rawBbl, normalized,
                   clsVars, dedupVars, cdVars, runVars, hpVars, sgVars>>

(***************************************************************************)
(* Specifications                                                          *)
(***************************************************************************)

InitClassify == ClassifyInit /\ DedupIdle /\ DetectIdle /\ RunIdle /\ HousingIdle /\ SimplifyIdle /\ NormalizeIdle
NextClassify == Classify
SpecClassify == InitClassify /\ [][NextClassify]_vars

InitDedup == DedupInit /\ ClassifyIdle /\ DetectIdle /\ RunIdle /\ HousingIdle /\ SimplifyIdle /\ NormalizeIdle
NextDedup == Deduplicate
SpecDedup == InitDedup /\ [][NextDedup]_vars

InitDetect == DetectInit /\ ClassifyIdle /\ DedupIdle /\ RunIdle /\ HousingIdle /\ SimplifyIdle /\ NormalizeIdle
NextDetect == Detect
SpecDetect == InitDetect /\ [][NextDetect]_vars

Init == RunInit /\ ClassifyIdle /\ DedupIdle /\ DetectIdle /\ HousingIdle /\ SimplifyIdle /\ NormalizeIdle
Next ==
    \/ ValidateRaw
    \/ ValidateProcessed
    \/ DetectChanges
    \/ SkipOrUpdate
    \/ ClearTable
    \/ InsertBatch
Spec == Init /\ [][Next]_vars

InitHousing ==
    HousingInit /\ ClassifyIdle /\ DedupIdle /\ DetectIdle /\ RunIdle
        /\ SimplifyIdle /\ NormalizeIdle
NextHousing ==
    \/ ProcessDCPHousing
    \/ ProcessHousingNY
    \/ OverlayAffordableData
    \/ OverlayAgain
    \/ DeduplicateBuildings
    \/ ProcessDCPDemolitions
    \/ MatchDemolitions
SpecHousing == InitHousing /\ [][NextHousing]_vars

InitSimplify ==
    SimplifyInit /\ ClassifyIdle /\ DedupIdle /\ DetectIdle /\ RunIdle
        /\ HousingIdle /\ NormalizeIdle
NextSimplify == CalculateCentroid \/ SimplifyLine \/ SimplifyGeometry
SpecSimplify == InitSimplify /\ [][NextSimplify]_vars

InitDescent ==
    DescentInit /\ ClassifyIdle /\ DedupIdle /\ DetectIdle /\ RunIdle
        /\ HousingIdle /\ NormalizeIdle
NextDescent == DescendLeft \/ DescendRight
SpecDescent == InitDescent /\ [][NextDescent]_vars

InitNormalize ==
    NormalizeInit /\ ClassifyIdle /\ DedupIdle /\ DetectIdle /\ RunIdle
        /\ HousingIdle /\ SimplifyIdle
NextNormalize == NormalizeBBL \/ NormalizeAgain
SpecNormalize == InitNormalize /\ [][NextNormalize]_vars

(***************************************************************************)
(* Properties                                                              *)
(***************************************************************************)

SameGroup(a, b) ==
    /\ Truthy(a.bbl) /\ Truthy(b.bbl)
    /\ a.bbl = b.bbl /\ a.completionYear = b.completionYear

\* a beats b under the ordered tie-break: units, then overlay, then job id
StrictlyDominates(a, b) ==
    \/ a.totalUnits > b.totalUnits
    \/ /\ a.totalUnits = b.totalUnits
       /\ a.hasAffordableOverlay /\ ~b.hasAffordableOverlay
    \/ /\ a.totalUnits = b.totalUnits
       /\ a.hasAffordableOverlay = b.hasAffordableOverlay
       /\ StrGreater(a.jobNumber, b.jobNumber)

TiedOnAll(a, b) ==
    /\ a.totalUnits = b.totalUnits
    /\ a.hasAffordableOverlay = b.hasAffordableOverlay
    /\ a.jobNumber = b.jobNumber

GroupMembers(i) ==
    {m \in 1..Len(buildings) : SameGroup(buildings[i], buildings[m])}

Survivors(i) ==
    {j \in 1..Len(uniqueBuildings) : SameGroup(buildings[i], uniqueBuildings[j])}

\* C1 as stated: every (property identifier, year) group has exactly one
\* survivor in the output, and the survivor strictly dominates every other
\* member of its group under units, then overlay, then job identifier.
C1_StrictSurvivor ==
    dedupPc = "done" =>
        \A i \in 1..Len(buildings) :
            Truthy(buildings[i].bbl) =>
                /\ Cardinality(Survivors(i)) = 1
                /\ \E s \in GroupMembers(i) :
                      /\ \A j \in Survivors(i) : uniqueBuildings[j] = buildings[s]
                      /\ \A m \in GroupMembers(i) \ {s} :
                            StrictlyDominates(buildings[s], buildings[m])

\* C1 amended: every (property identifier, year) group has exactly one
\* survivor; no member of the group beats it, it strictly dominates every
\* member that differs from it in units, overlay flag or job identifier, and
\* among members tied on all three the first in input order survives.
C1_MaximalSurvivor ==
    dedupPc = "done" =>
        \A i \in 1..Len(buildings) :
            Truthy(buildings[i].bbl) =>
                /\ Cardinality(Survivors(i)) = 1
                /\ \E s \in GroupMembers(i) :
                      /\ \A j \in Survivors(i) : uniqueBuildings[j] = buildings[s]
                      /\ \A m \in GroupMembers(i) :
                            /\ ~StrictlyDominates(buildings[m], buildings[s])
                            /\ ~TiedOnAll(buildings[m], buildings[s]) =>
                                  StrictlyDominates(buildings[s], buildings[m])
                            /\ m < s =>
                                  StrictlyDominates(buildings[s], buildings[m])

\* a group of three, two of them tied on units and differing in overlay, and
\* two tied on units and overlay and differing in job identifier
C1_Witness ==
    /\ dedupPc = "done"
    /\ Len(buildings) = 3 /\ Len(uniqueBuildings) = 1
    /\ \E a, b \in 1..3 :
          /\ buildings[a].totalUnits = buildings[b].totalUnits
          /\ buildings[a].hasAffordableOverlay # buildings[b].hasAffordableOverlay
    /\ \E a, b \in 1..3 :
          /\ buildings[a].totalUnits = buildings[b].totalUnits
          /\ buildings[a].hasAffordableOverlay = buildings[b].hasAffordableOverlay
          /\ buildings[a].jobNumber # buildings[b].jobNumber

\* the category the ordered rules of the classifier prescribe
StartsWithMixedUsePrefix(code) ==
    code # NULL /\ Head(code) \in {"D", "O", "d", "o"}

OrderedRuleCategory(in) ==
    CASE in.hasAffordableOverlay /\ JsGt(in.affordableUnits, 0) -> "affordable"
      [] ~(in.hasAffordableOverlay /\ JsGt(in.affordableUnits, 0))
            /\ in.jobType = "Alteration" -> "renovation"
      [] OTHER ->
            IF StartsWithMixedUsePrefix(in.buildingClass) THEN "mixed-use"
            ELSE IF JsGe(in.totalUnits, 50) THEN "multifamily-elevator"
            ELSE IF JsGe(in.totalUnits, 3) THEN "multifamily-walkup"
            ELSE IF JsLe(in.totalUnits, 2) THEN "one-two-family"
            ELSE "unknown"

\* C9: for every combination of inputs the classifier returns the first
\* matching category of the ordered rules (affordable, renovation,
\* mixed-use, elevator at >= 50, walk-up at >= 3, one-two-family at <= 2,
\* otherwise unknown).
C9_OrderedRules ==
    clsPc = "done" => clsOut = OrderedRuleCategory(clsIn)

\* an overlay with affordable units on an alteration of a mixed-use class
\* with 120 units: every lower rule would match, the first one wins
C9_Witness ==
    /\ clsPc = "done"
    /\ clsIn.hasAffordableOverlay /\ clsIn.affordableUnits = 5
    /\ clsIn.jobType = "Alteration" /\ clsIn.totalUnits = 120
    /\ clsIn.buildingClass = <<"D", "6">>
    /\ clsOut = "affordable"

ZeroUnitNewBuilding ==
    /\ clsPc = "done"
    /\ clsIn.totalUnits = 0 /\ ~clsIn.hasAffordableOverlay
    /\ clsIn.jobType = "New Building" /\ clsIn.buildingClass = NULL

\* C10 as stated: unit count 0, no overlay, job type New Building and a null
\* class code classify as unknown.
C10_ZeroUnitsUnknown == ZeroUnitNewBuilding => clsOut = "unknown"

\* C10 amended: unit count 0, no overlay, job type New Building and a null
\* class code classify as one-two-family (0 <= 2).
C10_ZeroUnitsOneTwoFamily == ZeroUnitNewBuilding => clsOut = "one-two-family"

C10_Witness == ZeroUnitNewBuilding /\ clsIn.affordableUnits = 0

(***************************************************************************)
(* Change detector properties (specification SpecDetect)                   *)
(***************************************************************************)

Detected == cdPc = "done"

\* the count query and the sample query answer in the {rows: [...]} shape
\* and nothing raises
QueriesAnswer == cdDriver = "rows" /\ cdFail = "none"

SameCount == Len(cdNew) = Cardinality(cdTable)

\* the new sequence is the persisted collection (in key order) with one
\* field of the record at position p changed
SingleFieldChange(p) ==
    /\ SameCount
    /\ p \in 1..Len(cdNew)
    /\ LET old == OrderById(cdTable)
       IN  /\ cdNew[p].id = old[p].id
           /\ cdNew[p].v # old[p].v
           /\ \A q \in 1..Len(cdNew) : q # p => cdNew[q] = old[q]

\* positions of a sequence of n records that the fingerprint reads: the
\* first, the last, and of the positions at a multiple of floor(n/5) the
\* first five
SampledPosition(p, n) ==
    \/ p = 1
    \/ p = n
    \/ /\ n >= 5
       /\ (p - 1) % (n \div 5) = 0
       /\ (p - 1) \div (n \div 5) < 5

\* C5 (as stated): with the same count, a change of a single field of a single
\* record at any position makes detectDataChanges return hasChanges = true
\* through a hash mismatch.
C5_AnyPosition ==
    (Detected /\ QueriesAnswer /\ \E p \in 1..Len(cdNew) : SingleFieldChange(p))
        => (cdResult.hasChanges /\ cdResult.reason = "hash mismatch")

\* C5 (amended): with the same count, a change of a single field of a single
\* record is reported as changed when the record is at a sampled position
\* (through a hash mismatch when the queries answer, through the fail-open
\* verdict otherwise); a change at any other position leaves the fingerprint
\* equal and is reported as unchanged when the queries answer.
C5_SampledPosition ==
    Detected =>
        \A p \in 1..Len(cdNew) :
            SingleFieldChange(p) =>
                IF SampledPosition(p, Len(cdNew))
                THEN /\ cdResult.hasChanges
                     /\ QueriesAnswer => cdResult.reason = "hash mismatch"
                ELSE QueriesAnswer => ~cdResult.hasChanges

C5_Witness ==
    /\ Detected /\ QueriesAnswer
    /\ \E p \in 2..(Len(cdNew) - 1) :
           SingleFieldChange(p) /\ SampledPosition(p, Len(cdNew))
    /\ cdResult.reason = "hash mismatch"

\* the new sequence holds exactly the persisted records, each once
SameContent ==
    /\ SameCount
    /\ {cdNew[i] : i \in 1..Len(cdNew)} = cdTable

\* C6 (as stated): when the persisted collection holds the same number of
\* records with the same content as the new sequence, detectDataChanges
\* returns hasChanges = false.
C6_SameContentUnchanged ==
    (Detected /\ QueriesAnswer /\ SameContent) => ~cdResult.hasChanges

\* C7 (as stated): a new count different from the persisted count gives
\* hasChanges = true with no hash computed, and an empty persisted collection
\* with a non-empty new sequence gives the reason "table is empty".
C7_CountShortCircuit ==
    (Detected /\ cdFail = "none" /\ ~SameCount)
        => /\ cdResult.hasChanges
           /\ cdResult.hashCalls = 0
           /\ (cdTable = {} => cdResult.reason = "table empty")

\* a step of the comparison raises: the count query, reading the count out of
\* its result, the sample query, or the hashing
ComparisonRaises == DetectTry(cdTable, cdNew, cdDriver, cdFail).threw

\* C8: detectDataChanges never throws, and when the count query, the sample
\* query or the hashing raises, its verdict is hasChanges = true.
C8_FailOpen ==
    Detected =>
        /\ ~cdResult.threw
        /\ ComparisonRaises => cdResult.hasChanges

C8_Witness ==
    /\ Detected /\ cdFail = "hash" /\ cdDriver = "rows" /\ SameContent
    /\ cdTable # {}
    /\ cdResult.hasChanges /\ cdResult.reason = "detection failed"

(***************************************************************************)
(* Seed run properties (specification Spec)                                *)
(***************************************************************************)

Untouched == ops = <<>> /\ db = dbAtStart

\* C2: no clear and no insert happens before every validation gate of the run
\* has passed, and a run whose validation fails ends with zero clears, zero
\* inserts and the persisted collections unchanged.
C2_ValidationBeforeWrites ==
    /\ pc \in {"raw", "processed"} => Untouched
    /\ failure = "validation" => (pc = "exit1" /\ Untouched)

C2_Witness ==
    /\ failure = "validation" /\ pc = "exit1"
    /\ db[1] # {}
    /\ ProcessedShapeValid(script, newRecs)
    /\ newRecs[1] # OrderById(db[1])

\* C3 (as stated): after a failed run each persisted collection holds exactly
\* the records it held before the run.
C3_FailedRunKeepsData == pc = "exit1" => db = dbAtStart

ClearsOf(c) == {i \in 1..Len(ops) : ops[i] = [op |-> "clear", coll |-> c]}
InsertsOf(c) == {i \in 1..Len(ops) : ops[i] = [op |-> "insert", coll |-> c]}

AllUnchanged ==
    \A i \in 1..Len(verdicts) :
        verdicts[i] # NoVerdict /\ ~verdicts[i].hasChanges

\* C4: in a run a collection is cleared at most once and every insert into it
\* comes after that clear; when the verdict is unchanged for every collection
\* the run does no clear and no insert and returns normally.
C4_OneCycleOrNoWrite ==
    /\ \A c \in 1..Len(db) :
        /\ Cardinality(ClearsOf(c)) <= 1
        /\ \A j \in InsertsOf(c) : \E i \in ClearsOf(c) : i < j
    /\ AllUnchanged => (pc \in {"decide", "skipped"} /\ Untouched)

C4_Witness ==
    /\ pc = "skipped" /\ script = "housing"
    /\ AllUnchanged
    /\ db[1] # {} /\ db[2] # {}

(***************************************************************************)
(* Housing pipeline properties (specification SpecHousing)                 *)
(***************************************************************************)

AfterOverlay ==
    hpPc \in {"overlaid", "remerged", "deduplicated", "demolitions", "matched"}

\* C11: applying overlayAffordableData a second time with the same map to the
\* already merged buildings leaves every field of every building as it was
\* after the first application.
C11_OverlayIdempotent ==
    hpPc = "remerged" => remerged = buildingsWithOverlay

C11_Witness ==
    /\ hpPc = "remerged"
    /\ \E i \in 1..Len(remerged) :
        /\ remerged[i].hasAffordableOverlay
        /\ remerged[i].buildingType = "affordable"
        /\ remerged[i].unknownBrUnits > 0
    /\ \E i \in 1..Len(remerged) : ~remerged[i].hasAffordableOverlay

AfterMapping == hpPc \notin {"idle", "fetched", "processed"}

AcceptedIndices ==
    {i \in 1..Len(housingNyRecords) : AcceptedHousingNy(housingNyRecords[i])}

NyKey(i) == normalizeBBL(housingNyRecords[i].bbl)

\* affordable-unit count of the i-th Housing NY record: the sum of its five
\* income-restricted tiers
NyAffordable(i) ==
    LET r == housingNyRecords[i]
    IN  ParseIntOrZero(r.extremely_low_income_units)
        + ParseIntOrZero(r.very_low_income_units)
        + ParseIntOrZero(r.low_income_units)
        + ParseIntOrZero(r.moderate_income_units)
        + ParseIntOrZero(r.middle_income_units)

SameKeyAccepted(i) == {j \in AcceptedIndices : NyKey(j) = NyKey(i)}

\* i has the greatest count of its key and is the first to have it
BestOfKey(i) ==
    /\ \A j \in SameKeyAccepted(i) : NyAffordable(j) <= NyAffordable(i)
    /\ \A j \in SameKeyAccepted(i) :
           NyAffordable(j) = NyAffordable(i) => i <= j

\* C12: processHousingNY maps each property identifier of an accepted record
\* to exactly one record, the one with the greatest affordable-unit count of
\* that identifier and the first seen among those tied on it.
C12_GreatestFirstSeen ==
    AfterMapping =>
        /\ DOMAIN housingNyMap = {NyKey(i) : i \in AcceptedIndices}
        /\ \A i \in AcceptedIndices :
            BestOfKey(i) =>
                /\ housingNyMap[NyKey(i)].projectId
                       = housingNyRecords[i].project_id
                /\ housingNyMap[NyKey(i)].affordableUnits = NyAffordable(i)

C12_Witness ==
    /\ hpPc = "mapped"
    /\ \E i, j \in AcceptedIndices :
        /\ i < j /\ NyKey(i) = NyKey(j)
        /\ NyAffordable(i) = NyAffordable(j)
        /\ housingNyRecords[i].project_id # housingNyRecords[j].project_id
        /\ housingNyMap[NyKey(i)].projectId = housingNyRecords[i].project_id

\* the accepted Housing NY records a building's overlay fields come from
SuppliersOf(b) ==
    {i \in AcceptedIndices : housingNyRecords[i].project_id = b.housingNyProjectId}

\* C13 (as stated): a building receives overlay fields only from an overlay
\* record with the same property identifier and the same completion year.
C13_SameIdentifierAndYear ==
    AfterOverlay =>
        \A n \in 1..Len(buildingsWithOverlay) :
            LET b == buildingsWithOverlay[n]
            IN  b.hasAffordableOverlay =>
                    /\ SuppliersOf(b) # {}
                    /\ \A i \in SuppliersOf(b) :
                        /\ NyKey(i) = b.bbl
                        /\ FullYear(housingNyRecords[i].building_completion_date)
                               = b.completionYear

\* C13 (amended): a building receives overlay fields only from the overlay
\* record kept for its own property identifier; completion years are not
\* compared.
C13_SameIdentifier ==
    AfterOverlay =>
        \A n \in 1..Len(buildingsWithOverlay) :
            LET b == buildingsWithOverlay[n]
            IN  b.hasAffordableOverlay =>
                    /\ b.bbl \in DOMAIN housingNyMap
                    /\ b.housingNyProjectId = housingNyMap[b.bbl].projectId
                    /\ b.affordableUnits = housingNyMap[b.bbl].affordableUnits
                    /\ SuppliersOf(b) # {}
                    /\ \A i \in SuppliersOf(b) : NyKey(i) = b.bbl

C13_Witness ==
    /\ hpPc = "overlaid"
    /\ \E n \in 1..Len(buildingsWithOverlay) :
        LET b == buildingsWithOverlay[n]
        IN  /\ b.hasAffordableOverlay
            /\ \E i \in SuppliersOf(b) :
                   FullYear(housingNyRecords[i].building_completion_date)
                       # b.completionYear
    /\ \E n \in 1..Len(buildingsWithOverlay) :
        /\ Truthy(buildingsWithOverlay[n].bbl)
        /\ ~buildingsWithOverlay[n].hasAffordableOverlay

\* the building has no property identifier or none that is in the map
Unmatched(b) == ~Truthy(b.bbl) \/ b.bbl \notin DOMAIN housingNyMap

IncomeTiersZero(b) ==
    /\ b.affordableUnits = 0 /\ b.affordablePercentage = 0
    /\ b.extremeLowIncomeUnits = 0 /\ b.veryLowIncomeUnits = 0
    /\ b.lowIncomeUnits = 0 /\ b.moderateIncomeUnits = 0
    /\ b.middleIncomeUnits = 0 /\ b.otherIncomeUnits = 0

SizedBedroomTiersZero(b) ==
    /\ b.studioUnits = 0 /\ b.oneBrUnits = 0 /\ b.twoBrUnits = 0
    /\ b.threeBrUnits = 0 /\ b.fourBrUnits = 0 /\ b.fiveBrUnits = 0
    /\ b.sixBrUnits = 0

\* C14 (as stated): after the overlay every unmatched building has every
\* affordability field, all bedroom-tier counts included, equal to zero,
\* provenance dcp and the overlay flag false.
C14_UnmatchedAllZero ==
    AfterOverlay =>
        \A n \in 1..Len(buildingsWithOverlay) :
            LET b == buildingsWithOverlay[n]
            IN  Unmatched(b) =>
                    /\ IncomeTiersZero(b) /\ SizedBedroomTiersZero(b)
                    /\ b.unknownBrUnits = 0
                    /\ b.dataSource = "dcp" /\ ~b.hasAffordableOverlay

\* C14 (amended): after the overlay every unmatched building has affordable
\* units, percentage, all income-tier counts and the studio to six-bedroom
\* counts equal to zero, the unknown-bedroom count equal to its unit count,
\* provenance dcp and the overlay flag false.
C14_UnmatchedDefaults ==
    AfterOverlay =>
        \A n \in 1..Len(buildingsWithOverlay) :
            LET b == buildingsWithOverlay[n]
            IN  Unmatched(b) =>
                    /\ IncomeTiersZero(b) /\ SizedBedroomTiersZero(b)
                    /\ b.unknownBrUnits = b.totalUnits
                    /\ b.dataSource = "dcp" /\ ~b.hasAffordableOverlay
                    /\ b.housingNyProjectId = NULL

C14_Witness ==
    /\ hpPc = "overlaid"
    /\ housingNyMap # EmptyMap
    /\ \E n \in 1..Len(buildingsWithOverlay) :
        ~Truthy(buildingsWithOverlay[n].bbl)
    /\ \E n \in 1..Len(buildingsWithOverlay) :
        /\ Truthy(buildingsWithOverlay[n].bbl)
        /\ Unmatched(buildingsWithOverlay[n])

ConstructionIdentifiers ==
    {dedupedBuildings[j].bbl : j \in 1..Len(dedupedBuildings)} \ {NULL}

\* C15: after the matching step a demolition is flagged exactly when it has a
\* property identifier and that identifier is one of the deduplicated
\* buildings'; the standalone demolitions are exactly the unflagged ones, in
\* order.
C15_FlagIffIdentifierMatches ==
    hpPc = "matched" =>
        /\ \A i \in 1..Len(demolitions) :
            demolitions[i].hasNewConstruction
                <=> (demolitions[i].bbl # NULL
                     /\ demolitions[i].bbl \in ConstructionIdentifiers)
        /\ standaloneDemolitions
               = SelectSeq(demolitions, LAMBDA d : ~d.hasNewConstruction)

C15_Witness ==
    /\ hpPc = "matched"
    /\ \E i \in 1..Len(demolitions) : demolitions[i].hasNewConstruction
    /\ \E i \in 1..Len(demolitions) :
        demolitions[i].bbl = NULL /\ ~demolitions[i].hasNewConstruction
    /\ \E i \in 1..Len(demolitions) :
        demolitions[i].bbl # NULL /\ ~demolitions[i].hasNewConstruction
    /\ \E j \in 1..Len(dedupedBuildings) : dedupedBuildings[j].bbl = NULL

\* C16 (as stated): a flagged demolition has a building with the same
\* property identifier whose completion year is not earlier than the
\* demolition year.
C16_FlagMeansLaterConstruction ==
    hpPc = "matched" =>
        \A i \in 1..Len(demolitions) :
            demolitions[i].hasNewConstruction =>
                \E j \in 1..Len(dedupedBuildings) :
                    /\ dedupedBuildings[j].bbl = demolitions[i].bbl
                    /\ dedupedBuildings[j].completionYear
                           >= demolitions[i].demolitionYear

(***************************************************************************)
(* Geometry simplification                                                 *)
(***************************************************************************)

AfterLine == sgPc \in {"line", "done"}
AfterGeometry == sgPc = "done"

\* out is line with some points left out: the points of out are found in
\* line in the same order, each at a later position than the one before
RECURSIVE IsSubsequenceFrom(_, _, _, _)
IsSubsequenceFrom(out, i, line, j) ==
    IF i > Len(out) THEN TRUE
    ELSE IF j > Len(line) THEN FALSE
    ELSE IF out[i] = line[j] THEN IsSubsequenceFrom(out, i + 1, line, j + 1)
    ELSE IsSubsequenceFrom(out, i, line, j + 1)

IsSubsequence(out, line) ==
    Len(out) <= Len(line) /\ IsSubsequenceFrom(out, 1, line, 1)

\* the rings of a Polygon's or MultiPolygon's coordinates, as
\* <<ring before, ring after>> pairs
RingPairs(before, after) ==
    IF before.type = "Polygon"
    THEN {<<before.coordinates[r], after.coordinates[r]>> :
              r \in 1..Len(before.coordinates)}
    ELSE IF before.type = "MultiPolygon"
    THEN UNION {{<<before.coordinates[q][r], after.coordinates[q][r]>> :
                     r \in 1..Len(before.coordinates[q])} :
                    q \in 1..Len(before.coordinates)}
    ELSE {}

SameShape(before, after) ==
    /\ after.type = before.type
    /\ Len(after.coordinates) = Len(before.coordinates)
    /\ before.type = "MultiPolygon" =>
           \A q \in 1..Len(before.coordinates) :
               Len(after.coordinates[q]) = Len(before.coordinates[q])

\* C17: for a tolerance of zero or more, the simplified ring is the input
\* ring with points left out: its points are points of the input in their
\* original order and there are no more of them than in the input; for a
\* Polygon and a MultiPolygon this holds ring by ring.
C17_Subsequence ==
    /\ AfterLine => IsSubsequence(simplified, points)
    /\ AfterGeometry /\ geometry.type \in {"Polygon", "MultiPolygon"} =>
           /\ SameShape(geometry, geometrySimplified)
           /\ \A pair \in RingPairs(geometry, geometrySimplified) :
                  IsSubsequence(pair[2], pair[1])

\* C17 witness: a ring of four points was cut by a recursive split to three,
\* and a MultiPolygon holding it was simplified
C17_Witness ==
    /\ AfterGeometry
    /\ Len(points) = 4 /\ Len(simplified) = 3
    /\ geometry.type = "MultiPolygon"
    /\ geometrySimplified.coordinates[1][1] = simplified

Interior(line) == 2..(Len(line) - 1)

\* the position the split is made at: the first interior position whose
\* point is farthest from the line through the end points
FirstFarthest(line) ==
    CHOOSE m \in Interior(line) :
        /\ \A i \in Interior(line) :
               DistNumerator(line[i], line[1], line[Len(line)])
                   <= DistNumerator(line[m], line[1], line[Len(line)])
        /\ \A i \in Interior(line) :
               i < m => DistNumerator(line[i], line[1], line[Len(line)])
                            < DistNumerator(line[m], line[1], line[Len(line)])

\* no interior point is farther than tol from the line through the end
\* points: distance * lineLength is the numerator
AllWithin(line, tol) ==
    \A i \in Interior(line) :
        LET num == DistNumerator(line[i], line[1], line[Len(line)])
        IN  num * num <= tol * tol * LineLengthSquared(line[1], line[Len(line)])

\* C19: for a ring of more than two points with distinct end points: when
\* no interior point is farther than the tolerance from the line through
\* the end points the result is exactly the first and the last point;
\* otherwise the farthest interior point (the first on ties) is kept, and
\* the result is the simplification of the part up to it followed by the
\* simplification of the part from it, the point itself appearing once.
C19_SplitAtFarthest ==
    AfterLine /\ Len(points) > 2 /\ points[1] # points[Len(points)] =>
        IF AllWithin(points, tolerance)
        THEN simplified = <<points[1], points[Len(points)]>>
        ELSE LET m == FirstFarthest(points)
                 left == simplifyLine(SubSeq(points, 1, m), tolerance)
                 right == simplifyLine(SubSeq(points, m, Len(points)), tolerance)
             IN  /\ left[Len(left)] = points[m]
                 /\ right[1] = points[m]
                 /\ Len(simplified) = Len(left) + Len(right) - 1
                 /\ SubSeq(simplified, 1, Len(left)) = left
                 /\ SubSeq(simplified, Len(left), Len(simplified)) = right

\* C19 witness: two interior points are equally far and farther than the
\* tolerance, and the split was made at the first of them
C19_Witness ==
    /\ AfterLine
    /\ Len(points) = 4 /\ points[1] # points[4]
    /\ ~AllWithin(points, tolerance)
    /\ DistNumerator(points[2], points[1], points[4])
           = DistNumerator(points[3], points[1], points[4])
    /\ points[2] # points[3]
    /\ simplified = <<points[1], points[2], points[4]>>

\* the square of the distance from p to the segment a-b is at most the
\* square of tol: the foot of the perpendicular when it falls on the
\* segment, the nearer end point otherwise
WithinOfSegment(p, a, b, tol) ==
    LET l2 == LineLengthSquared(a, b)
        dot == (p[1] - a[1]) * (b[1] - a[1]) + (p[2] - a[2]) * (b[2] - a[2])
        num == DistNumerator(p, a, b)
    IN  IF l2 = 0 \/ dot <= 0 THEN LineLengthSquared(a, p) <= tol * tol
        ELSE IF dot >= l2 THEN LineLengthSquared(b, p) <= tol * tol
        ELSE num * num <= tol * tol * l2

\* p is within tol of the polyline out
WithinOfPolyline(p, out, tol) ==
    IF Len(out) = 1 THEN LineLengthSquared(out[1], p) <= tol * tol
    ELSE \E k \in 1..(Len(out) - 1) : WithinOfSegment(p, out[k], out[k + 1], tol)

\* C20: every point of the input ring lies within the tolerance of the
\* nearest segment of the simplified ring (the points that were kept are on
\* it, so this is about those that were removed).
C20_BoundedDeviation ==
    AfterLine =>
        \A i \in 1..Len(points) :
            WithinOfPolyline(points[i], simplified, tolerance)

(***************************************************************************)
(* Centroid                                                                *)
(***************************************************************************)

AfterCentroid == sgPc \notin {"idle", "input"}

\* the outer rings of a geometry: the first ring of a Polygon, the first
\* ring of each polygon of a MultiPolygon, where there is one
OuterRings(g) ==
    IF g.type = "Polygon"
    THEN IF Len(g.coordinates) = 0 THEN <<>> ELSE <<g.coordinates[1]>>
    ELSE IF g.type = "MultiPolygon"
    THEN LET has == {q \in 1..Len(g.coordinates) : Len(g.coordinates[q]) > 0}
             RECURSIVE From(_)
             From(q) == IF q > Len(g.coordinates) THEN <<>>
                        ELSE IF q \in has
                        THEN <<g.coordinates[q][1]>> \o From(q + 1)
                        ELSE From(q + 1)
         IN  From(1)
    ELSE <<>>

RECURSIVE Flatten(_)
Flatten(rings) ==
    IF rings = <<>> THEN <<>> ELSE Head(rings) \o Flatten(Tail(rings))

RECURSIVE SumOf(_, _)
SumOf(vertices, k) ==
    IF vertices = <<>> THEN 0 ELSE Head(vertices)[k] + SumOf(Tail(vertices), k)

\* result is the mean of the vertices, (null, null) when there are none:
\* the quotient n / d is the mean when n * count = sum * d
IsMeanOf(result, vertices) ==
    IF vertices = <<>> THEN result = <<NULL, NULL>>
    ELSE /\ Len(result) = 2
         /\ \A k \in 1..2 :
                /\ Len(result[k]) = 2
                /\ result[k][2] > 0
                /\ result[k][1] * Len(vertices) = SumOf(vertices, k) * result[k][2]

\* C21: calculateCentroid returns the coordinates of a Point unchanged,
\* the mean of the vertices of the outer ring of each polygon for a Polygon
\* and a MultiPolygon (hole rings have no part in it), and (null, null) for
\* a missing geometry and for a geometry of zero vertices.
C21_CentroidReference ==
    AfterCentroid =>
        /\ sgPc # "raised"
        /\ IF geometry.type = "Point" THEN centroid = geometry.coordinates
           ELSE IF geometry.type \in {"Polygon", "MultiPolygon"}
           THEN IsMeanOf(centroid, Flatten(OuterRings(geometry)))
           ELSE centroid = <<NULL, NULL>>

(***************************************************************************)
(* Identifier normaliser                                                   *)
(***************************************************************************)

\* the digits of a raw value, in order, found without the normaliser
RECURSIVE DigitsOf(_)
DigitsOf(s) ==
    IF s = <<>> THEN <<>>
    ELSE IF Head(s) \in Digits THEN <<Head(s)>> \o DigitsOf(Tail(s))
    ELSE DigitsOf(Tail(s))

TenDigits(s) == Len(s) = 10 /\ \A i \in 1..Len(s) : s[i] \in Digits

AfterProcessing == hpPc \notin {"idle", "fetched"}

\* a parsed coordinate that is a finite number other than zero
UsableCoordinate(x) == ~IsNaN(x) /\ x # 0 /\ x # Infinity /\ x # 0 - Infinity

\* C23: a raw record whose latitude or longitude parses to zero, to
\* not-a-number or to an infinite value is dropped: no building of the
\* normalised list carries such a coordinate.
C23_UnusableCoordinatesDropped ==
    AfterProcessing =>
        \A i \in 1..Len(dcpBuildings) :
            /\ UsableCoordinate(dcpBuildings[i].latitude)
            /\ UsableCoordinate(dcpBuildings[i].longitude)

AfterDeduplication == hpPc \in {"deduplicated", "demolitions", "matched"}
AfterDemolitions == hpPc \in {"demolitions", "matched"}

\* a year of the configured range
YearInRange(y) == ~IsNaN(y) /\ y >= MinYear /\ y <= MaxYear

\* the fields of a construction record are within their bounds
WithinBounds(b) ==
    /\ YearInRange(b.completionYear)
    /\ ~IsNaN(b.totalUnits) /\ b.totalUnits # Infinity /\ b.totalUnits >= 1
    /\ b.bbl = NULL \/ TenDigits(b.bbl)

\* C24: every construction record made by processDCPHousing, and every
\* record after the overlay and after deduplication, has a completion year
\* in 2014..2025, an integer unit count of at least 1, and an identifier
\* that is absent or of exactly 10 digits; every removal record has a
\* removal year in 2014..2025.
C24_RecordsWithinBounds ==
    /\ AfterProcessing =>
           \A i \in 1..Len(dcpBuildings) : WithinBounds(dcpBuildings[i])
    /\ AfterOverlay =>
           \A i \in 1..Len(buildingsWithOverlay) :
               WithinBounds(buildingsWithOverlay[i])
    /\ AfterDeduplication =>
           \A i \in 1..Len(dedupedBuildings) : WithinBounds(dedupedBuildings[i])
    /\ AfterDemolitions =>
           \A i \in 1..Len(demolitions) : YearInRange(demolitions[i].demolitionYear)

(***************************************************************************)
(* Deduplication: what is kept and how many                                *)
(***************************************************************************)

AfterDedup == dedupPc = "done"

WithoutIdentifier(bs) == SelectSeq(bs, LAMBDA b : ~Truthy(b.bbl))

\* the groups of a list: the identifier and year pairs found in it
GroupsIn(bs) ==
    {<<bs[i].bbl, bs[i].completionYear>> :
        i \in {j \in 1..Len(bs) : Truthy(bs[j].bbl)}}

GroupSize(bs, g) ==
    Cardinality({i \in 1..Len(bs) :
                    Truthy(bs[i].bbl) /\ <<bs[i].bbl, bs[i].completionYear>> = g})

RECURSIVE RemovedIn(_, _)
RemovedIn(bs, groups) ==
    IF groups = {} THEN 0
    ELSE LET g == CHOOSE x \in groups : TRUE
         IN  (GroupSize(bs, g) - 1) + RemovedIn(bs, groups \ {g})

\* C25: deduplicateBuildings keeps every record without identifier, returns
\* only records of its input with every field as it was, and returns as
\* many records as the input has less the sum over the groups of (group
\* size - 1).
C25_KeptAndCounted ==
    AfterDedup =>
        /\ WithoutIdentifier(uniqueBuildings) = WithoutIdentifier(buildings)
        /\ \A i \in 1..Len(uniqueBuildings) :
               \E j \in 1..Len(buildings) : uniqueBuildings[i] = buildings[j]
        /\ Len(uniqueBuildings)
               = Len(buildings) - RemovedIn(buildings, GroupsIn(buildings))

\* C25 witness: a list with a record without identifier and a group of two
\* records that differ was deduplicated to two records
C25_Witness ==
    /\ AfterDedup
    /\ Len(buildings) = 3 /\ Len(uniqueBuildings) = 2
    /\ Len(WithoutIdentifier(buildings)) = 1
    /\ \E i, j \in 1..3 :
           /\ i < j /\ Truthy(buildings[i].bbl) /\ Truthy(buildings[j].bbl)
           /\ buildings[i] # buildings[j]

\* the building type is the classification of the record's own fields
TypeOfOwnFields(b) ==
    b.buildingType = classifyBuildingType(b.totalUnits, b.affordableUnits,
                         b.jobType, b.hasAffordableOverlay, b.buildingClass)

\* C26: every construction record left after normalisation, overlay and
\* deduplication has the building type that classifyBuildingType gives for
\* its own final unit count, affordable-unit count, job type, overlay flag
\* and class code; a survivor with an overlay and affordable units above
\* zero is labelled affordable.
C26_FinalTypeFromFinalFields ==
    AfterDeduplication =>
        \A i \in 1..Len(dedupedBuildings) :
            LET b == dedupedBuildings[i]
            IN  /\ TypeOfOwnFields(b)
                /\ b.hasAffordableOverlay /\ JsGt(b.affordableUnits, 0) =>
                       b.buildingType = "affordable"

\* C26 witness: of two overlaid records of one lot and year the 45-unit
\* alteration survived deduplication and is labelled affordable
C26_Witness ==
    /\ hpPc = "deduplicated"
    /\ Len(buildingsWithOverlay) = 2 /\ Len(dedupedBuildings) = 1
    /\ dedupedBuildings[1].totalUnits = 45
    /\ dedupedBuildings[1].jobType = "Alteration"
    /\ dedupedBuildings[1].hasAffordableOverlay
    /\ dedupedBuildings[1].buildingType = "affordable"

(***************************************************************************)
(* Empty demolition set                                                    *)
(***************************************************************************)

\* a housing run stands before the validation of its processed records,
\* with buildings and without demolitions
EmptyDemolitionsToValidate ==
    /\ script = "housing" /\ pc = "processed"
    /\ Len(newRecs[1]) > 0 /\ Len(newRecs[2]) = 0

\* the validation of the processed records passes
PassesProcessedValidation == ValidateProcessed /\ pc' = "detect"

\* C27: a housing run whose processed demolition set is empty can pass the
\* validation of the processed records and go on to change detection: the
\* empty demolition set alone does not abort it.
C27_EmptyDemolitionsPass ==
    EmptyDemolitionsToValidate => ENABLED PassesProcessedValidation

(***************************************************************************)
(* Termination of the simplification                                       *)
(***************************************************************************)

\* C28: every recursive call of simplifyLine receives a strictly shorter
\* sequence than its caller, for every tolerance, zero and negative values
\* included, so the recursion ends.
C28_CallsShrink ==
    sgPc = "descent" /\ depth > 0 => Len(call) < Len(caller)

(***************************************************************************)
(* Deduplication and the demolition flags                                  *)
(***************************************************************************)

\* the identifiers that are present in a list of records
IdentifiersOf(bs) == {bs[j].bbl : j \in 1..Len(bs)} \ {NULL}

\* C29: the deduplicated records carry the same set of identifiers as the
\* records before deduplication, so every demolition has the flag it would
\* have had if it had been matched against the records before
\* deduplication.
C29_SameIdentifiersSameFlags ==
    /\ AfterDeduplication =>
           IdentifiersOf(dedupedBuildings) = IdentifiersOf(buildingsWithOverlay)
    /\ hpPc = "matched" =>
           \A i \in 1..Len(demolitions) :
               demolitions[i].hasNewConstruction
                   <=> (demolitions[i].bbl # NULL
                        /\ demolitions[i].bbl \in IdentifiersOf(buildingsWithOverlay))

\* C29 witness: deduplication removed a record of a lot, and a demolition on
\* that lot is flagged
C29_Witness ==
    /\ hpPc = "matched"
    /\ Len(dedupedBuildings) < Len(buildingsWithOverlay)
    /\ Len(dedupedBuildings) = 1
    /\ \E i \in 1..Len(demolitions) :
           /\ demolitions[i].hasNewConstruction
           /\ demolitions[i].bbl = dedupedBuildings[1].bbl

(***************************************************************************)
(* Keys of the records to insert                                           *)
(***************************************************************************)

\* C30: the construction records left after deduplication have pairwise
\* distinct id values and pairwise distinct jobNumber values, the primary
\* key and the unique column of the table they are inserted into.
C30_DistinctKeys ==
    AfterDeduplication =>
        \A i, j \in 1..Len(dedupedBuildings) :
            i # j => /\ dedupedBuildings[i].id # dedupedBuildings[j].id
                     /\ dedupedBuildings[i].jobNumber
                            # dedupedBuildings[j].jobNumber

====
